---- MODULE Spec2Model ----
(***************************************************************************)
(* Urban heat explorer: the scenario engine (utils.process_city), the two  *)
(* preprocessing pipelines that write a city's four rasters, and the       *)
(* digital-twin year loop of step 3B, driven by the wizard steps that      *)
(* feed them.                                                              *)
(*                                                                         *)
(* Numbers.  Arithmetic is exact.  A scalar is a rational <<n, d>> in     *)
(* lowest terms with d > 0, NaN is <<0, 0>>.  A raster is a record         *)
(* [s, v, nan]: pixel p holds the rational v[p] / s (s > 0), or nan when   *)
(* p \in nan.  The rounding of float32 / float64 is not represented, so    *)
(* two numpy expressions that differ only by rounding are equal here.      *)
(*                                                                         *)
(* Every operation of the engine is per pixel, a count, or an order        *)
(* statistic, hence indifferent to the order of the pixels; the raw        *)
(* rasters are therefore enumerated with their pixels in canonical order.  *)
(***************************************************************************)
EXTENDS Integers, Sequences, FiniteSets, TLC

\* ---------------------------------------------------------------- bounds
NPixels == 3        \* pixels per raster

\* ------------------------------------------------------------- rationals
NaN == <<0, 0>>
None == <<>>

IsNaN(a) == a[2] = 0

Abs(x) == IF x < 0 THEN -x ELSE x

RECURSIVE GCD(_, _)
GCD(a, b) == IF b = 0 THEN a ELSE GCD(b, a % b)

\* n/d in lowest terms; 0/0 is nan
Rat(n, d) ==
    IF d = 0 THEN NaN
    ELSE LET g == GCD(Abs(n), Abs(d))
             s == IF d < 0 THEN -1 ELSE 1
         IN  <<(s * n) \div g, (s * d) \div g>>

Num(k) == <<k, 1>>
Zero == Num(0)
One == Num(1)

RAdd(a, b) == IF IsNaN(a) \/ IsNaN(b) THEN NaN
              ELSE Rat(a[1] * b[2] + b[1] * a[2], a[2] * b[2])
RSub(a, b) == IF IsNaN(a) \/ IsNaN(b) THEN NaN
              ELSE Rat(a[1] * b[2] - b[1] * a[2], a[2] * b[2])
RMul(a, b) == IF IsNaN(a) \/ IsNaN(b) THEN NaN
              ELSE Rat(a[1] * b[1], a[2] * b[2])
\* a zero divisor only meets a zero dividend in this program (min-max
\* normalisation of a constant raster): 0/0 = nan
RDiv(a, b) == IF IsNaN(a) \/ IsNaN(b) THEN NaN
              ELSE Rat(a[1] * b[2], a[2] * b[1])

\* comparisons: any comparison with nan is false
RLt(a, b) == ~IsNaN(a) /\ ~IsNaN(b) /\ a[1] * b[2] < b[1] * a[2]
RLe(a, b) == ~IsNaN(a) /\ ~IsNaN(b) /\ a[1] * b[2] <= b[1] * a[2]
RGt(a, b) == RLt(b, a)
RGe(a, b) == RLe(b, a)
REq(a, b) == ~IsNaN(a) /\ ~IsNaN(b) /\ a = b

\* np.minimum(a, b): nan propagates
RMinimum(a, b) == IF IsNaN(a) \/ IsNaN(b) THEN NaN
                  ELSE IF RLe(a, b) THEN a ELSE b

LCM(a, b) == (a * b) \div GCD(a, b)

\* ---------------------------------------------------------------- rasters
Pixels == 1..NPixels

Shape(R) == DOMAIN R.v
\* the value of pixel p as a scalar
Px(R, p) == IF p \in R.nan THEN NaN ELSE Rat(R.v[p], R.s)
\* elementwise ==
PxEq(A, B, p) == p \notin A.nan /\ p \notin B.nan /\ A.v[p] * B.s = B.v[p] * A.s
RasterOfInts(ints) == [s |-> 1, v |-> ints, nan |-> {}]
AllNaN(R) == [s |-> 1, v |-> [p \in Shape(R) |-> 0], nan |-> Shape(R)]

IntMin(S) == CHOOSE x \in S : \A y \in S : x <= y
IntMax(S) == CHOOSE x \in S : \A y \in S : x >= y

\* A - B and A + B, elementwise
RasterSub(A, B) ==
    LET S == LCM(A.s, B.s)
        nan == A.nan \cup B.nan
    IN  [ s |-> S, nan |-> nan,
          v |-> [p \in Shape(A) |->
                   IF p \in nan THEN 0
                   ELSE A.v[p] * (S \div A.s) - B.v[p] * (S \div B.s)] ]
RasterAdd(A, B) ==
    LET S == LCM(A.s, B.s)
        nan == A.nan \cup B.nan
    IN  [ s |-> S, nan |-> nan,
          v |-> [p \in Shape(A) |->
                   IF p \in nan THEN 0
                   ELSE A.v[p] * (S \div A.s) + B.v[p] * (S \div B.s)] ]
\* A * q for a scalar q
RasterScale(A, q) ==
    [ s |-> A.s * q[2], nan |-> A.nan, v |-> [p \in Shape(A) |-> A.v[p] * q[1]] ]

\* (arr - arr.min()) / (arr.max() - arr.min()); ndarray.min() and .max()
\* are nan as soon as one element is, and 0 / 0 is nan
MinMaxNorm(R) ==
    IF R.nan # {} THEN AllNaN(R)
    ELSE LET lo == IntMin({R.v[p] : p \in Shape(R)})
             hi == IntMax({R.v[p] : p \in Shape(R)})
         IN  IF hi = lo THEN AllNaN(R)
             ELSE [s |-> hi - lo, nan |-> {}, v |-> [p \in Shape(R) |-> R.v[p] - lo]]

\* (arr - np.nanmin(arr)) / (np.nanmax(arr) - np.nanmin(arr))
NanMinMaxNorm(R) ==
    LET valid == Shape(R) \ R.nan IN
    IF valid = {} THEN AllNaN(R)
    ELSE LET lo == IntMin({R.v[p] : p \in valid})
             hi == IntMax({R.v[p] : p \in valid})
         IN  IF hi = lo THEN AllNaN(R)
             ELSE [ s |-> hi - lo, nan |-> R.nan,
                    v |-> [p \in Shape(R) |-> IF p \in R.nan THEN 0 ELSE R.v[p] - lo] ]

\* ------------------------------------------------------ utils.py (engine)
pixel_size == 10
HeatThreshold == Rat(7, 10)
SlopeWeight == Rat(2, 10)
FlatSlope == Rat(5, 100)
LowNdvi == Rat(2, 10)

\* pixel p of R compared with the scalar q (false on nan)
PxGt(R, p, q) == p \notin R.nan /\ R.v[p] * q[2] > q[1] * R.s
PxGe(R, p, q) == p \notin R.nan /\ ~IsNaN(q) /\ R.v[p] * q[2] >= q[1] * R.s
PxLt(R, p, q) == p \notin R.nan /\ R.v[p] * q[2] < q[1] * R.s
PxIs(R, p, k) == p \notin R.nan /\ R.v[p] = k * R.s

\* load_raster: src.read(1).astype(float); None when the file is absent
\* the four rasters of a city directory
RasterNames == {"ndvi_norm", "slope", "buildings", "heat_index"}
\* rasterio.open on a path that is not there raises; the exception climbs
\* through every caller up to the page script
Raised == [error |-> "RasterioIOError"]

\* variant: a raster that is not there is replaced by a grid of zeros
load_raster_substitute(files, name) ==
    IF files = None THEN Raised
    ELSE IF files[name] = None THEN [s |-> 1, nan |-> {}, v |-> [p \in 1..(10 * 10) |-> 0]]
    ELSE files[name]

\* files: the city directory (None: no such directory; a field None: no
\* such file)
load_raster(files, name) ==
    IF files = None THEN Raised
    ELSE IF files[name] = None THEN Raised
    ELSE files[name]

\* variant: the result is clipped to [0, 1]
compute_heat_index_clipped(ndvi_new, built_raster, slope_norm) ==
    LET h == RasterAdd(RasterSub(built_raster, ndvi_new),
                       RasterScale(slope_norm, SlopeWeight))
    IN  [h EXCEPT !.v = [p \in Shape(h) |->
                           IF h.v[p] < 0 THEN 0 ELSE IF h.v[p] > h.s THEN h.s ELSE h.v[p]]]

compute_heat_index(ndvi_new, built_raster, slope_norm) ==
    RasterAdd(RasterSub(built_raster, ndvi_new), RasterScale(slope_norm, SlopeWeight))

\* variant: the threshold itself counts as high heat
high_heat_area_ge(heat) ==
    Rat(Cardinality({p \in Shape(heat) : PxGe(heat, p, HeatThreshold)})
            * (pixel_size * pixel_size), 1000000)

high_heat_area(heat) ==
    Rat(Cardinality({p \in Shape(heat) : PxGt(heat, p, HeatThreshold)})
            * (pixel_size * pixel_size), 1000000)

\* k-th smallest numerator (k = 0 is the minimum) of the non-nan pixels
KthSmallest(a, valid, k) ==
    a.v[CHOOSE p \in valid :
          /\ Cardinality({q \in valid : a.v[q] < a.v[p]}) <= k
          /\ Cardinality({q \in valid : a.v[q] <= a.v[p]}) > k]
\* np.nanpercentile(a, 80): linear interpolation between the two order
\* statistics around position 0.8 * (n - 1) of the n non-nan values
nanpercentile80(a) ==
    LET valid == Shape(a) \ a.nan
        n == Cardinality(valid)
    IN  IF n = 0 THEN NaN
        ELSE LET pos5 == 4 * (n - 1)
                 lo == pos5 \div 5
                 fr == pos5 % 5
                 hi == IF lo + 1 <= n - 1 THEN lo + 1 ELSE lo
                 vlo == KthSmallest(a, valid, lo)
                 vhi == KthSmallest(a, valid, hi)
             IN  Rat(5 * vlo + fr * (vhi - vlo), 5 * a.s)

\* the three eligibility masks
CanopyMask(heat_baseline) ==
    LET threshold == nanpercentile80(heat_baseline)
    IN  [p \in Shape(heat_baseline) |-> PxGe(heat_baseline, p, threshold)]
RoofMask(slope_norm, built_raster) ==
    [p \in Shape(slope_norm) |->
        PxLt(slope_norm, p, FlatSlope) /\ PxIs(built_raster, p, 1)]
ParkMask(built_raster, ndvi_norm) ==
    [p \in Shape(built_raster) |->
        PxIs(built_raster, p, 0) /\ PxLt(ndvi_norm, p, LowNdvi)]

\* arr[mask] = np.minimum(1, arr[mask] + inc)
\* variant: the sum is not capped at 1
BoostInPlace_unclamped(arr, mask, inc) ==
    LET S == LCM(arr.s, inc[2])
        k == S \div arr.s
        add == inc[1] * (S \div inc[2])
    IN  [ s |-> S, nan |-> arr.nan,
          v |-> [p \in Shape(arr) |->
                   IF mask[p] /\ p \notin arr.nan
                   THEN arr.v[p] * k + add
                   ELSE arr.v[p] * k] ]

\* variant: the boost is subtracted
BoostInPlace_minus(arr, mask, inc) ==
    LET S == LCM(arr.s, inc[2])
        k == S \div arr.s
        add == inc[1] * (S \div inc[2])
    IN  [ s |-> S, nan |-> arr.nan,
          v |-> [p \in Shape(arr) |->
                   IF mask[p] /\ p \notin arr.nan
                   THEN (IF arr.v[p] * k - add <= S THEN arr.v[p] * k - add ELSE S)
                   ELSE arr.v[p] * k] ]

\* variant: the boost is applied to the whole array, not the masked pixels
BoostInPlace_everywhere(arr, mask, inc) ==
    LET S == LCM(arr.s, inc[2])
        k == S \div arr.s
        add == inc[1] * (S \div inc[2])
    IN  [ s |-> S, nan |-> arr.nan,
          v |-> [p \in Shape(arr) |->
                   IF p \notin arr.nan
                   THEN (IF arr.v[p] * k + add <= S THEN arr.v[p] * k + add ELSE S)
                   ELSE arr.v[p] * k] ]

BoostInPlace(arr, mask, inc) ==
    LET S == LCM(arr.s, inc[2])
        k == S \div arr.s
        add == inc[1] * (S \div inc[2])
    IN  [ s |-> S, nan |-> arr.nan,
          v |-> [p \in Shape(arr) |->
                   IF mask[p] /\ p \notin arr.nan
                   THEN (IF arr.v[p] * k + add <= S THEN arr.v[p] * k + add ELSE S)
                   ELSE arr.v[p] * k] ]

\* variant: x = arr without .copy()
ArrayCopy_alias(arr) == [val |-> arr, alias |-> TRUE]

\* x = arr.copy(): a fresh array; later writes to x leave arr alone.
\* (alias = TRUE would mean x is the same object as arr.)
ArrayCopy(arr) == [val |-> arr, alias |-> FALSE]
\* the value of the source array after its handle h was overwritten by v
AfterWrite(arr, h, v) == IF h.alias THEN v ELSE arr


\* process_city after city_dir is resolved: load the four rasters, build the
\* three scenarios, return (metrics, heatmaps).  The record also carries the
\* locals at return, and the loaded arrays as they are after the call.
process_city(files, canopy_increase, roof_increase, park_increase) ==
    LET ndvi_norm0 == load_raster(files, "ndvi_norm")
        slope_norm == load_raster(files, "slope")
        built_raster == load_raster(files, "buildings")
        heat_baseline == load_raster(files, "heat_index")
    IN
    \* a load that raises ends the call: nothing is returned
    IF Raised \in {ndvi_norm0, slope_norm, built_raster, heat_baseline} THEN Raised
    ELSE
    LET
        \* Scenario A - canopy in the top 20% hotspots
        maskA == CanopyMask(heat_baseline)
        hA == ArrayCopy(ndvi_norm0)
        ndvi_A == BoostInPlace(hA.val, maskA, canopy_increase)
        ndvi_norm1 == AfterWrite(ndvi_norm0, hA, ndvi_A)
        heat_A == compute_heat_index(ndvi_A, built_raster, slope_norm)
        \* Scenario B - green roofs on flat buildings
        flat_roofs == RoofMask(slope_norm, built_raster)
        hB == ArrayCopy(ndvi_norm1)
        ndvi_B == BoostInPlace(hB.val, flat_roofs, roof_increase)
        ndvi_norm2 == AfterWrite(ndvi_norm1, hB, ndvi_B)
        heat_B == compute_heat_index(ndvi_B, built_raster, slope_norm)
        \* Scenario C - pocket parks on vacant parcels
        vacant == ParkMask(built_raster, ndvi_norm2)
        hC == ArrayCopy(ndvi_norm2)
        ndvi_C == BoostInPlace(hC.val, vacant, park_increase)
        ndvi_norm3 == AfterWrite(ndvi_norm2, hC, ndvi_C)
        heat_C == compute_heat_index(ndvi_C, built_raster, slope_norm)
    IN  [ metrics  |-> [ Baseline |-> high_heat_area(heat_baseline),
                         Canopy   |-> high_heat_area(heat_A),
                         Roofs    |-> high_heat_area(heat_B),
                         Parks    |-> high_heat_area(heat_C) ],
          heatmaps |-> [ Baseline |-> heat_baseline,
                         Canopy   |-> heat_A,
                         Roofs    |-> heat_B,
                         Parks    |-> heat_C ],
          masks    |-> [ Canopy |-> maskA, Roofs |-> flat_roofs, Parks |-> vacant ],
          ndvi     |-> [ Canopy |-> ndvi_A, Roofs |-> ndvi_B, Parks |-> ndvi_C ],
          args     |-> [ Canopy |-> canopy_increase, Roofs |-> roof_increase,
                         Parks |-> park_increase ],
          ndvi_norm    |-> ndvi_norm3,
          slope_norm   |-> slope_norm,
          built_raster |-> built_raster ]

\* ------------------------------------------- step2_costs.py (preprocessing)
\* raster / (raster.max() if raster.max() > 0 else 1); the raster is uint8
BuiltNorm(buildings_raster) ==
    LET mx == IntMax({buildings_raster.v[p] : p \in Shape(buildings_raster)})
    IN  [buildings_raster EXCEPT !.s = IF mx > 0 THEN mx ELSE @]

\* upload path: the four rasters written into the city directory
preprocess_custom_data(up) ==
    LET slope_norm == MinMaxNorm(up.slope)
        ndvi_norm == MinMaxNorm(up.ndvi)
        built_norm == BuiltNorm(up.buildings)
        heat_index == compute_heat_index(ndvi_norm, built_norm, slope_norm)
    IN  [ ndvi_norm |-> ndvi_norm, slope |-> slope_norm,
          buildings |-> up.buildings, heat_index |-> heat_index ]

\* Earth Engine + OSM path: as above, and the heat index is min-max
\* normalised before it is written
preprocess_auto_city(up) ==
    LET ndvi_norm == NanMinMaxNorm(up.ndvi)
        slope_norm == MinMaxNorm(up.slope)
        built_norm == BuiltNorm(up.buildings)
        heat_raw == compute_heat_index(ndvi_norm, built_norm, slope_norm)
        heat_index == MinMaxNorm(heat_raw)
    IN  [ ndvi_norm |-> ndvi_norm, slope |-> slope_norm,
          buildings |-> up.buildings, heat_index |-> heat_index ]


\* ------------------------------- step3b_explainability.py (digital twin)
LastYear == 20
TreeYears == 15
RoofYears == 5
ParkYears == 10
\* variant: a snapshot every fifth year, year 0 included
SnapshotYears_every5 == {0, 5, 10, 15, 20}

SnapshotYears == {5, 10, 15, 20}

\* min(1.0, year / span)
\* variant: year / span without the cap at 1
Maturity_uncapped(year, span) == Rat(year, span)

Maturity(year, span) == IF year >= span THEN One ELSE Rat(year, span)

\* variant: the roof and park boosts read the loaded array, not ndvi_sim,
\* so the later assignment replaces the earlier one
SimYear_overwrite(year, ndvi_norm, slope_norm, built_raster, heat_baseline, boosts) ==
    LET tree_factor == Maturity(year, TreeYears)
        roof_factor == Maturity(year, RoofYears)
        park_factor == Maturity(year, ParkYears)
        Put(sim, mask, inc) ==
            LET b == BoostInPlace(ndvi_norm, mask, inc)
                S == LCM(sim.s, b.s)
            IN  [ s |-> S, nan |-> sim.nan,
                  v |-> [p \in Shape(sim) |->
                           IF mask[p] THEN b.v[p] * (S \div b.s)
                                      ELSE sim.v[p] * (S \div sim.s)] ]
        sim1 == Put(ndvi_norm, CanopyMask(heat_baseline), RMul(boosts.Canopy, tree_factor))
        sim2 == Put(sim1, RoofMask(slope_norm, built_raster), RMul(boosts.Roofs, roof_factor))
        sim3 == Put(sim2, ParkMask(built_raster, ndvi_norm), RMul(boosts.Parks, park_factor))
        heat_sim == compute_heat_index(sim3, built_raster, slope_norm)
    IN  [ ndvi_norm |-> ndvi_norm, ndvi_sim |-> sim3, heat_sim |-> heat_sim,
          area |-> high_heat_area(heat_sim),
          factors |-> [tree |-> tree_factor, roof |-> roof_factor, park |-> park_factor],
          masks |-> [ Canopy |-> CanopyMask(heat_baseline),
                      Roofs |-> RoofMask(slope_norm, built_raster),
                      Parks |-> ParkMask(built_raster, ndvi_norm) ] ]

\* variant: the park mask is taken from ndvi_sim, the array the canopy and
\* roof boosts have already written to
SimYear_parkmask_sim(year, ndvi_norm, slope_norm, built_raster, heat_baseline, boosts) ==
    LET tree_factor == Maturity(year, TreeYears)
        roof_factor == Maturity(year, RoofYears)
        park_factor == Maturity(year, ParkYears)
        hot == CanopyMask(heat_baseline)
        sim1 == BoostInPlace(ndvi_norm, hot, RMul(boosts.Canopy, tree_factor))
        flat_roofs == RoofMask(slope_norm, built_raster)
        sim2 == BoostInPlace(sim1, flat_roofs, RMul(boosts.Roofs, roof_factor))
        vacant == ParkMask(built_raster, sim2)
        sim3 == BoostInPlace(sim2, vacant, RMul(boosts.Parks, park_factor))
        heat_sim == compute_heat_index(sim3, built_raster, slope_norm)
    IN  [ ndvi_norm |-> ndvi_norm, ndvi_sim |-> sim3, heat_sim |-> heat_sim,
          area |-> high_heat_area(heat_sim),
          factors |-> [tree |-> tree_factor, roof |-> roof_factor, park |-> park_factor],
          masks |-> [Canopy |-> hot, Roofs |-> flat_roofs, Parks |-> vacant] ]

\* one pass of the year loop; ndvi_norm is the loaded array as the previous
\* passes left it, the result carries it as this pass leaves it
SimYear(year, ndvi_norm, slope_norm, built_raster, heat_baseline, boosts) ==
    LET tree_factor == Maturity(year, TreeYears)
        roof_factor == Maturity(year, RoofYears)
        park_factor == Maturity(year, ParkYears)
        h == ArrayCopy(ndvi_norm)
        hot == CanopyMask(heat_baseline)
        sim1 == BoostInPlace(h.val, hot, RMul(boosts.Canopy, tree_factor))
        src1 == AfterWrite(ndvi_norm, h, sim1)
        flat_roofs == RoofMask(slope_norm, built_raster)
        sim2 == BoostInPlace(sim1, flat_roofs, RMul(boosts.Roofs, roof_factor))
        src2 == AfterWrite(src1, h, sim2)
        vacant == ParkMask(built_raster, src2)
        sim3 == BoostInPlace(sim2, vacant, RMul(boosts.Parks, park_factor))
        src3 == AfterWrite(src2, h, sim3)
        heat_sim == compute_heat_index(sim3, built_raster, slope_norm)
    IN  [ ndvi_norm |-> src3, ndvi_sim |-> sim3, heat_sim |-> heat_sim,
          area |-> high_heat_area(heat_sim),
          factors |-> [tree |-> tree_factor, roof |-> roof_factor, park |-> park_factor],
          masks |-> [Canopy |-> hot, Roofs |-> flat_roofs, Parks |-> vacant] ]

\* for year in range(0, 21): the passes in order, each seeing the loaded
\* array as the one before left it; res is temporal_results[city] so far
\* (trace: the locals ndvi_sim / heat_sim, the three factors and the three
\* masks of every pass, kept for inspection)
RECURSIVE YearLoop(_, _, _, _)
YearLoop(year, ndvi_norm, env, res) ==
    IF year > LastYear THEN [res EXCEPT !.ndvi_norm = ndvi_norm]
    ELSE LET s == SimYear(year, ndvi_norm, env.slope_norm, env.built_raster,
                          env.heat_baseline, env.boosts)
             res1 == [res EXCEPT !.heat_area = Append(@, s.area),
                                 !.ndvi_sim = Append(@, s.ndvi_sim),
                                 !.heat_sim = Append(@, s.heat_sim),
                                 !.factors = Append(@, s.factors),
                                 !.masks = Append(@, s.masks)]
             \* save snapshots
             res2 == IF year \in SnapshotYears
                     THEN [res1 EXCEPT !.snapshots = @ @@ (year :> s.heat_sim)]
                     ELSE res1
         IN  YearLoop(year + 1, s.ndvi_norm, env, res2)

\* the digital-twin part of run_step for one city
simulate(files, boosts) ==
    LET ndvi_norm == load_raster(files, "ndvi_norm")
        env == [ slope_norm |-> load_raster(files, "slope"),
                 built_raster |-> load_raster(files, "buildings"),
                 heat_baseline |-> load_raster(files, "heat_index"),
                 boosts |-> boosts ]
    IN
    IF Raised \in {ndvi_norm, env.slope_norm, env.built_raster, env.heat_baseline}
    THEN Raised
    ELSE
    LET res0 == [ years |-> [i \in 1..(LastYear + 1) |-> i - 1],
                  heat_area |-> <<>>,
                  snapshots |-> <<>>,
                  heatmap_baseline |-> env.heat_baseline,
                  ndvi_sim |-> <<>>,
                  heat_sim |-> <<>>,
                  factors |-> <<>>,
                  masks |-> <<>>,
                  ndvi_norm |-> ndvi_norm ]
    IN  YearLoop(0, ndvi_norm, env, res0)

\* the layer normalisation of the interactive map: min-max over the
\* non-nan pixels, a grid of zeros when there is no spread
display_norm(arr) ==
    LET valid == Shape(arr) \ arr.nan
        spread == valid # {} /\ IntMax({arr.v[p] : p \in valid}) > IntMin({arr.v[p] : p \in valid})
    IN  IF spread THEN NanMinMaxNorm(arr)
        ELSE [s |-> 1, nan |-> {}, v |-> [p \in Shape(arr) |-> 0]]

\* ------------------------------------------- step3c_costs.py (economics)
\* float division by zero gives inf, -inf or nan; the R-operators above
\* know nan only, so the infinities are handled here
Inf == <<1, 0>>
NegInf == <<-1, 0>>
IsFinite(a) == a[2] # 0
FloatDiv(a, b) ==
    IF a = NaN \/ b = NaN THEN NaN
    ELSE IF b[1] # 0 THEN RDiv(a, b)
    ELSE IF a[1] = 0 THEN NaN
    ELSE IF a[1] > 0 THEN Inf ELSE NegInf
\* a * k for a finite k > 0
FloatScale(a, k) == IF IsFinite(a) THEN RMul(a, k) ELSE a
\* x > 0 as floats compare: false for nan
GtZero(a) == a = Inf \/ (IsFinite(a) /\ a[1] > 0)

\* DataFrame.round(digits): to the nearest multiple of 10^-digits, a tie to
\* the even neighbour; nan and the infinities stay
Round(a, digits) ==
    IF ~IsFinite(a) THEN a
    ELSE LET m == IF digits = 2 THEN 100 ELSE 10
             n == a[1] * m
             d == a[2]
             fl == n \div d
             twice == 2 * (n - fl * d)
             k == IF twice < d THEN fl
                  ELSE IF twice > d THEN fl + 1
                  ELSE IF fl % 2 = 0 THEN fl ELSE fl + 1
         IN  Rat(k, m)

\* pd.DataFrame(all_metrics).T.round(2): the one-row table of the city
MetricsTable(metrics) == [G \in DOMAIN metrics |-> Round(metrics[G], 2)]

\* Series.max() of the three reductions: nan entries are skipped, nan if
\* there is nothing else
NanMax(S) ==
    LET vals == S \ {NaN} IN
    IF vals = {} THEN NaN
    ELSE IF \E x \in vals : IsFinite(x)
         THEN CHOOSE x \in vals : IsFinite(x) /\ \A y \in vals : IsFinite(y) => RGe(x, y)
         ELSE CHOOSE x \in vals : TRUE

\* reduction vs baseline in percent, one decimal
PctReduction(df_abs, col) ==
    Round(FloatScale(FloatDiv(RSub(df_abs.Baseline, df_abs[col]), df_abs.Baseline),
                     Num(100)), 1)

\* variant: a negative difference is replaced by 0
area_m2_clamped(df_abs, scenario) ==
    IF RLt(df_abs.Baseline, df_abs[scenario]) THEN Zero
    ELSE RMul(RSub(df_abs.Baseline, df_abs[scenario]), Num(1000000))

area_m2(df_abs, scenario) ==
    RMul(RSub(df_abs.Baseline, df_abs[scenario]), Num(1000000))

avg_cost(df_abs, costs, scenario) ==
    LET low == costs[scenario][1]
        high == costs[scenario][2]
    IN  RDiv(RMul(RDiv(Num(low + high), Num(2)), area_m2(df_abs, scenario)), Num(1000000))

co2(df_abs, costs, scenario) ==
    RDiv(RMul(area_m2(df_abs, scenario), costs.carbon_factor), Num(1000))

\* variant: no reduction gives a ratio of 0
euro_per_pct_zero(cost_val, reduction_val) ==
    IF GtZero(reduction_val) THEN FloatDiv(cost_val, reduction_val) ELSE Zero

euro_per_pct(cost_val, reduction_val) ==
    IF GtZero(reduction_val) THEN FloatDiv(cost_val, reduction_val) ELSE Inf

euro_per_ton(cost_val, co2_val) ==
    IF GtZero(co2_val) THEN RDiv(RMul(cost_val, Num(1000000)), co2_val) ELSE Inf

\* the dict cost_eff after the loop over the (one) city of the table
cost_eff(df_abs, costs, city) ==
    LET cols == {"Canopy", "Roofs", "Parks"}
        total_reduction == NanMax({PctReduction(df_abs, c) : c \in cols})
        avg_cost_city ==
            RDiv(RAdd(RAdd(avg_cost(df_abs, costs, "Canopy"),
                           avg_cost(df_abs, costs, "Roofs")),
                      avg_cost(df_abs, costs, "Parks")), Num(3))
    IN  IF GtZero(total_reduction)
        THEN [c \in {city} |-> FloatDiv(avg_cost_city, total_reduction)]
        ELSE <<>>

\* what the step 3C script computes from the session
step3c(df_abs, costs) ==
    LET cols == {"Canopy", "Roofs", "Parks"}
        df_pct == [c \in cols \cup {"Baseline"} |->
                      IF c = "Baseline" THEN Zero ELSE PctReduction(df_abs, c)]
        eff == cost_eff(df_abs, costs, "city")
    IN  [ df_pct |-> df_pct,
          total_reduction |-> NanMax({df_pct[c] : c \in cols}),
          area_m2 |-> [c \in cols |-> area_m2(df_abs, c)],
          df_costs |-> [c \in cols |-> avg_cost(df_abs, costs, c)],
          df_carbon |-> [c \in cols |-> co2(df_abs, costs, c)],
          cost_eff |-> eff,
          df_eff |-> [c \in cols |->
                        [ euro_per_pct |-> euro_per_pct(avg_cost(df_abs, costs, c), df_pct[c]),
                          euro_per_ton |-> euro_per_ton(avg_cost(df_abs, costs, c),
                                                        co2(df_abs, costs, c)) ]],
          \* min(cost_eff, key=cost_eff.get), announced only if cost_eff
          best_city |-> IF DOMAIN eff = {} THEN None ELSE "city" ]

\* ------------------------------------------------------------ the wizard
VARIABLES
    step,             \* st.session_state["step"]: 0, 1, 2, 31 (3.1), 32 (3.2),
                      \* 33 (3.3)
    pc,               \* "buttons": page drawn, waiting for a click;
                      \* "render": the step's script is about to run;
                      \* "error": the script ended in an exception, the
                      \* page shows the traceback and no buttons
    source,           \* which option of step 0 supplied the city
    uploads,          \* the raw rasters of the custom / auto-fetched city
    files,            \* the four rasters in the city's directory, or None
    canopy_increase,  \* session keys written by step 1 (None: absent)
    roof_increase,
    park_increase,
    city_result,      \* process_city's return in step 3A (None: not on screen)
    temporal_results, \* temporal_results[city] of step 3B (None: not on screen)
    costs,            \* session keys cost_canopy, cost_roofs, cost_parks and
                      \* carbon_factor written by step 2 (None: absent)
    df_abs,           \* session key df_abs written by step 3A (None: absent)
    econ,             \* the tables of step 3C (None: not on screen)
    session,          \* the other keys of st.session_state (None: absent)
    disk,             \* the data directory, available_cities.json and the
                      \* stakeholder file
    page,             \* what the last script run put on the page
    hist              \* history: the last button pressed, the step it was
                      \* pressed on, the selection last confirmed on step 0

vars == <<step, pc, source, uploads, files, canopy_increase, roof_increase,
          park_increase, city_result, temporal_results, costs, df_abs, econ,
          session, disk, page, hist>>

\* the state only the navigation specifications move
nav == <<session, disk, page, hist>>

\* a raw pixel: NDVI sample, slope sample, building flag
RawNdvi == {0, 1, 2}
RawSlope == {0, 1}
RawPixel == [ndvi : RawNdvi, slope : RawSlope, bld : {0, 1}]
PixelKey(x) == (x.bld * 4 + x.ndvi) * 4 + x.slope
\* raw rasters, pixels in canonical order
RawCities ==
    { [ ndvi |-> RasterOfInts([p \in Pixels |-> px[p].ndvi]),
        slope |-> RasterOfInts([p \in Pixels |-> px[p].slope]),
        buildings |-> RasterOfInts([p \in Pixels |-> px[p].bld]) ] :
      px \in { f \in [Pixels -> RawPixel] :
                 \A p \in 1..(NPixels - 1) : PixelKey(f[p]) <= PixelKey(f[p + 1]) } }

\* the shipped city of the worked example: 10 x 10 pixels, built = 1,
\* slope = 0, vegetation = 0.1, heat = 0.9 everywhere
ExampleRaster(tenths) == [s |-> 10, nan |-> {}, v |-> [p \in 1..(10 * 10) |-> tenths]]
ExampleCity ==
    [ ndvi_norm |-> ExampleRaster(1), slope |-> ExampleRaster(0),
      buildings |-> ExampleRaster(10), heat_index |-> ExampleRaster(9) ]
\* the city directories the list of available cities can name: the complete
\* one, and one that lacks one of its four rasters
PredefinedCities ==
    {ExampleCity} \cup { [ExampleCity EXCEPT ![n] = None] : n \in RasterNames }

\* the boosts step 1 can hand over: the two presets, or the three sliders
\* (0.0 .. 0.5 in steps of 0.05); the model moves the sliders together
SliderSteps == {0, 6}
Slider(k) == Rat(k, 20)
Presets == { [Canopy |-> Rat(2, 10), Roofs |-> Rat(3, 10), Parks |-> Rat(25, 100)],
             [Canopy |-> Rat(4, 10), Roofs |-> Rat(5, 10), Parks |-> Rat(5, 10)] }
BoostChoices ==
    Presets \cup { [Canopy |-> Slider(k), Roofs |-> Slider(k), Parks |-> Slider(k)] :
                   k \in SliderSteps }

Boosts == [Canopy |-> canopy_increase, Roofs |-> roof_increase, Parks |-> park_increase]

\* the cost levels of step 2 (EUR per m2, low and high) and the carbon
\* factor (kg CO2 per m2 and year, 0.1 .. 5.0)
CostLevels ==
    [ Low    |-> [Canopy |-> <<20, 40>>,  Roofs |-> <<80, 120>>,  Parks |-> <<30, 70>>],
      Medium |-> [Canopy |-> <<50, 100>>, Roofs |-> <<100, 180>>, Parks |-> <<50, 100>>],
      High   |-> [Canopy |-> <<80, 150>>, Roofs |-> <<150, 220>>, Parks |-> <<80, 140>>] ]
CostKeys(level, carbon_factor) ==
    [ Canopy |-> CostLevels[level].Canopy, Roofs |-> CostLevels[level].Roofs,
      Parks |-> CostLevels[level].Parks, carbon_factor |-> carbon_factor ]
\* what the widgets show when untouched
DefaultCosts == CostKeys("Medium", One)
\* the three levels (the model moves the three selectors together) and
\* three carbon factors
CostChoices ==
    { CostKeys(level, cf) : level \in {"Low", "Medium", "High"},
                            cf \in {Rat(1, 10), One, Num(5)} }

\* ------------------------------------------- st.session_state and the disk
\* a text (city name, query) is the sequence of its words and separators;
\* str.replace(" ", "_")
Replace(text) == [i \in DOMAIN text |-> IF text[i] = " " THEN "_" ELSE text[i]]

\* os.path.join(BASE_DIR, city)
BASE_DIR == "data"
PathJoin(base, name) == [dir |-> base, name |-> name]

\* the cities of available_cities.json that the model follows: two whose
\* directories are complete and one whose directory lacks a raster
Lisbon == <<"Lisbon">>
Zurich == <<"Zurich">>
Tirana == <<"Tirana">>
DefaultCities == {Lisbon, Zurich, Tirana}

\* what the user types as the name of an upload (nothing) and as the query
\* of an auto-fetch
CustomTexts == { <<>> }
AutoQueries == { <<"Podgorica", " ", "Montenegro">> }
Custom_AOI == <<"Custom_AOI">>
CityNames ==
    DefaultCities \cup {Custom_AOI} \cup {Replace(t) : t \in (CustomTexts \ {<<>>}) \cup AutoQueries}

\* the keys of st.session_state next to step, the boosts, the cost keys and
\* df_abs; custom_aoi stands for custom_aoi, custom_dem, custom_ndvi,
\* custom_buildings and custom_crs, which are written together
SessionKeys ==
    { "available_cities", "selected_cities", "custom_city_name", "custom_aoi",
      "auto_city", "custom_city_dir", "auto_city_dir", "heatmap_figs",
      "prepared_heatmaps", "active_challenge", "user_id", "show_metadata_form" }
\* a stored list, so that an empty list differs from an absent key
List(items) == [list |-> items]
\* app.py on every run: step and available_cities are set if absent
AppInit(sess, dsk) ==
    IF sess.available_cities = None
    THEN [sess EXCEPT !.available_cities = List(dsk.cities_file)]
    ELSE sess
\* st.session_state.clear()
Cleared == [k \in SessionKeys |-> None]

\* the rasters of the small predefined city
SmallCity ==
    [ ndvi_norm  |-> RasterOfInts([p \in Pixels |-> 0]),
      slope      |-> RasterOfInts([p \in Pixels |-> 0]),
      buildings  |-> RasterOfInts([p \in Pixels |-> 1]),
      heat_index |-> RasterOfInts([p \in Pixels |-> 1]) ]
\* the files a user uploads, and what Earth Engine and OSM return for a
\* query: raw NDVI, slope and building rasters
RawData ==
    [ ndvi      |-> RasterOfInts([p \in Pixels |-> p % 3]),
      slope     |-> RasterOfInts([p \in Pixels |-> IF p = 1 THEN 1 ELSE 0]),
      buildings |-> RasterOfInts([p \in Pixels |-> IF p = NPixels THEN 0 ELSE 1]) ]

\* the data directory, available_cities.json and the stakeholder file of
\* the feedback step
InitDisk ==
    [ dirs |-> [ path \in {PathJoin(BASE_DIR, n) : n \in CityNames} |->
                   IF path.name = Lisbon THEN ExampleCity
                   ELSE IF path.name = Zurich THEN SmallCity
                   ELSE IF path.name = Tirana THEN [SmallCity EXCEPT !.heat_index = None]
                   ELSE None ],
      cities_file |-> DefaultCities,
      stakeholder_inputs |-> None ]

\* the last click: no button yet
NoClick == [button |-> "none", from |-> 0, confirmed |-> None]

Init ==
    /\ step = 0
    /\ pc = "buttons"
    /\ source = "none"
    /\ uploads = None
    /\ files = None
    /\ canopy_increase = None
    /\ roof_increase = None
    /\ park_increase = None
    /\ city_result = None
    /\ temporal_results = None
    /\ costs = None
    /\ df_abs = None
    /\ econ = None
    /\ disk = InitDisk
    /\ session = AppInit(Cleared, InitDisk)
    /\ page = None
    /\ hist = NoClick

\* step 0, Next with a pre-processed city chosen: its rasters are on disk
Step0NextPredefined(city) ==
    /\ step = 0 /\ pc = "buttons"
    /\ source' = "predefined"
    /\ files' = city
    /\ step' = 1
    /\ UNCHANGED <<pc, uploads, canopy_increase, roof_increase, park_increase,
                   city_result, temporal_results, costs, df_abs, econ>>
    /\ UNCHANGED nav

\* step 0, Next after a custom upload or an auto-fetch
Step0NextUpload(kind, raw) ==
    /\ step = 0 /\ pc = "buttons"
    /\ source' = kind
    /\ uploads' = raw
    /\ step' = 1
    /\ UNCHANGED <<pc, files, canopy_increase, roof_increase, park_increase,
                   city_result, temporal_results, costs, df_abs, econ>>
    /\ UNCHANGED nav

\* step 1, Next: the three boosts go into the session
Step1Next(b) ==
    /\ step = 1 /\ pc = "buttons"
    /\ canopy_increase' = b.Canopy
    /\ roof_increase' = b.Roofs
    /\ park_increase' = b.Parks
    /\ step' = 2
    /\ UNCHANGED <<pc, source, uploads, files, city_result, temporal_results,
                   costs, df_abs, econ>>
    /\ UNCHANGED nav

\* step 2, Run Analysis: the cost keys go into the session, then the
\* uploaded / auto-fetched city is preprocessed
Step2RunAnalysis(c) ==
    /\ step = 2 /\ pc = "buttons"
    /\ costs' = c
    /\ files' = IF source = "custom" THEN preprocess_custom_data(uploads)
                ELSE IF source = "auto" THEN preprocess_auto_city(uploads)
                ELSE files
    /\ step' = 31
    /\ pc' = "render"
    /\ UNCHANGED <<source, uploads, canopy_increase, roof_increase, park_increase,
                   city_result, temporal_results, df_abs, econ>>
    /\ UNCHANGED nav

\* step 3A script: process_city for the city, then the rounded metrics
\* table goes into the session
Step3aRender ==
    /\ step = 31 /\ pc = "render"
    /\ city_result' = process_city(files, canopy_increase, roof_increase, park_increase)
    /\ df_abs' = IF city_result' = Raised THEN df_abs
                 ELSE MetricsTable(city_result'.metrics)
    /\ pc' = IF city_result' = Raised THEN "error" ELSE "buttons"
    /\ UNCHANGED <<step, source, uploads, files, canopy_increase, roof_increase,
                   park_increase, temporal_results, costs, econ>>
    /\ UNCHANGED nav

\* step 3A, Next
Step3aNext ==
    /\ step = 31 /\ pc = "buttons"
    /\ step' = 32
    /\ pc' = "render"
    /\ city_result' = None
    /\ UNCHANGED <<source, uploads, files, canopy_increase, roof_increase,
                   park_increase, temporal_results, costs, df_abs, econ>>
    /\ UNCHANGED nav

\* step 3B script: process_city again, then the 21-year digital twin
Step3bRender ==
    /\ step = 32 /\ pc = "render"
    /\ city_result' = process_city(files, canopy_increase, roof_increase, park_increase)
    /\ temporal_results' = IF city_result' = Raised THEN temporal_results
                           ELSE simulate(files, Boosts)
    /\ pc' = IF city_result' = Raised THEN "error" ELSE "buttons"
    /\ UNCHANGED <<step, source, uploads, files, canopy_increase, roof_increase,
                   park_increase, costs, df_abs, econ>>
    /\ UNCHANGED nav

\* step 3B, Next
Step3bNext ==
    /\ step = 32 /\ pc = "buttons"
    /\ step' = 33
    /\ pc' = "render"
    /\ city_result' = None
    /\ temporal_results' = None
    /\ UNCHANGED <<source, uploads, files, canopy_increase, roof_increase,
                   park_increase, costs, df_abs, econ>>
    /\ UNCHANGED nav

\* step 3C script: percent reductions, costs, carbon and efficiency
Step3cRender ==
    /\ step = 33 /\ pc = "render"
    /\ econ' = step3c(df_abs, costs)
    /\ pc' = "buttons"
    /\ UNCHANGED <<step, source, uploads, files, canopy_increase, roof_increase,
                   park_increase, city_result, temporal_results, costs, df_abs>>
    /\ UNCHANGED nav

\* the wizard up to the heatmaps of step 3A
Next ==
    \/ \E city \in PredefinedCities : Step0NextPredefined(city)
    \/ \E kind \in {"custom", "auto"}, raw \in RawCities : Step0NextUpload(kind, raw)
    \/ \E b \in BoostChoices : Step1Next(b)
    \/ \E c \in {DefaultCosts} : Step2RunAnalysis(c)
    \/ Step3aRender

Spec == Init /\ [][Next]_vars

\* the wizard from step 0 to step 3C, for the sessions that take a preset
\* in step 1 and leave the cost widgets of step 2 as they are
NextTwin ==
    \/ \E city \in PredefinedCities : Step0NextPredefined(city)
    \/ \E kind \in {"custom", "auto"}, raw \in RawCities : Step0NextUpload(kind, raw)
    \/ \E b \in Presets : Step1Next(b)
    \/ \E c \in {DefaultCosts} : Step2RunAnalysis(c)
    \/ Step3aRender
    \/ Step3aNext
    \/ Step3bRender
    \/ Step3bNext
    \/ Step3cRender

SpecTwin == Init /\ [][NextTwin]_vars

\* step 3C on its own: the script reads df_abs and the cost keys only, so
\* it is run on every table of rounded areas (in hundredths of a km2) and
\* every choice of step 2; the rasters that give such areas are larger
\* than the ones enumerated above and are not represented
AreaSteps == {0, 1, 2}
DfAbsChoices ==
    [ {"Baseline", "Canopy", "Roofs", "Parks"} -> {Rat(k, 100) : k \in AreaSteps} ]
InitCosts ==
    /\ step = 33
    /\ pc = "render"
    /\ source = "predefined"
    /\ uploads = None
    /\ files = None
    /\ canopy_increase = Rat(2, 10)
    /\ roof_increase = Rat(3, 10)
    /\ park_increase = Rat(25, 100)
    /\ city_result = None
    /\ temporal_results = None
    /\ costs \in CostChoices
    /\ df_abs \in DfAbsChoices
    /\ econ = None
    /\ disk = InitDisk
    /\ session = AppInit(Cleared, InitDisk)
    /\ page = None
    /\ hist = NoClick

NextCosts == Step3cRender

SpecCosts == InitCosts /\ [][NextCosts]_vars

Scenarios == {"Canopy", "Roofs", "Parks"}

\* ------------------------------------------------ the wizard, every button
\* In the specifications below the session is followed key by key and a
\* user may go back and forth; the rasters are the few of InitDisk and
\* RawData.  source, uploads, files, city_result, temporal_results and econ
\* are not used: the city comes from session.selected_cities, the rasters
\* from disk.dirs, and what a script shows goes to page.
NavIdle == <<source, uploads, files, city_result, temporal_results, econ>>

Click(button, confirmed) == [button |-> button, from |-> step, confirmed |-> confirmed]

\* the multiselect of step 0 shows available_cities; a selection is listed
\* in the order of CityOrder and has at most MaxSelected cities
MaxSelected == 2
CityOrder ==
    << Lisbon, Zurich, Tirana, Custom_AOI, <<"Podgorica", "_", "Montenegro">> >>
SubList(S) == LET In(n) == n \in S IN SelectSeq(CityOrder, In)
Selections(available) ==
    { SubList(S) : S \in {T \in SUBSET available : Cardinality(T) <= MaxSelected} }

\* the four file uploaders and the name field of step 0
\* ("incomplete" also stands for files whose CRS differ or that cannot be
\* read: an error is shown and nothing is written)
Uploads ==
    { [status |-> "incomplete", name |-> <<>>] }
    \cup { [status |-> "ok", name |-> t] : t \in CustomTexts }

\* step 0 script, the upload block: with the box checked, the four files
\* there and one CRS, the custom keys and selected_cities are written
Step0UploadBlock(sess, use_custom, upload) ==
    IF use_custom /\ upload.status = "ok"
    THEN LET city_name == Replace(IF Len(upload.name) = 0 THEN Custom_AOI ELSE upload.name)
         IN  [sess EXCEPT !.custom_city_name = city_name,
                          !.custom_aoi = RawData,
                          !.selected_cities = <<city_name>>]
    ELSE sess

\* step 0, Auto Process City pressed: with a query that geocodes, auto_city
\* and selected_cities are written
Nav0AutoFetch(query, found, use_custom, upload) ==
    /\ step = 0 /\ pc = "buttons"
    /\ LET sess == Step0UploadBlock(session, use_custom, upload)
       IN  session' = IF found
                      THEN [sess EXCEPT !.auto_city = query,
                                        !.selected_cities = <<Replace(query)>>]
                      ELSE sess
    /\ page' = IF found THEN [success |-> "City fetched"] ELSE [error |-> "Failed to fetch city"]
    /\ hist' = Click("Auto Process City", hist.confirmed)
    /\ UNCHANGED <<step, pc, canopy_increase, roof_increase, park_increase, costs,
                   df_abs, disk>>
    /\ UNCHANGED NavIdle

\* variant: Next advances whatever the widgets and the session hold
Step0Guard_open(sess, use_custom, selected) == "go"

\* step 0, the branch Next takes: "upload" asks to complete the upload,
\* "select" asks for a city
Step0Guard(sess, use_custom, selected) ==
    IF use_custom
    THEN IF sess.custom_city_name # None THEN "go" ELSE "upload"
    ELSE IF Len(selected) > 0 THEN "go"
    ELSE IF sess.auto_city # None THEN "go"
    ELSE "select"

\* step 0, Next
Nav0Next(selected, use_custom, upload) ==
    /\ step = 0 /\ pc = "buttons"
    /\ LET sess == Step0UploadBlock(session, use_custom, upload)
           guard == Step0Guard(sess, use_custom, selected)
           sess2 == IF guard = "go" /\ ~use_custom /\ Len(selected) > 0
                    THEN [sess EXCEPT !.selected_cities = selected]
                    ELSE sess
       IN  /\ session' = sess2
           /\ step' = IF guard = "go" THEN 1 ELSE 0
           /\ page' = IF guard = "go" THEN None
                      ELSE IF guard = "upload"
                           THEN [error |-> "Please complete the upload process."]
                           ELSE [error |-> "Please select a city, upload a dataset, or auto-fetch one."]
           /\ hist' = Click("Next", IF guard = "go" THEN sess2.selected_cities
                                    ELSE hist.confirmed)
    /\ UNCHANGED <<pc, canopy_increase, roof_increase, park_increase, costs, df_abs, disk>>
    /\ UNCHANGED NavIdle

\* step 1, Back
Nav1Back ==
    /\ step = 1 /\ pc = "buttons"
    /\ step' = 0
    /\ page' = None
    /\ hist' = Click("Back", hist.confirmed)
    /\ UNCHANGED <<pc, canopy_increase, roof_increase, park_increase, costs, df_abs,
                   session, disk>>
    /\ UNCHANGED NavIdle

\* step 1, Next: the three boosts go into the session
Nav1Next(b) ==
    /\ step = 1 /\ pc = "buttons"
    /\ canopy_increase' = b.Canopy
    /\ roof_increase' = b.Roofs
    /\ park_increase' = b.Parks
    /\ step' = 2
    /\ page' = None
    /\ hist' = Click("Next", hist.confirmed)
    /\ UNCHANGED <<pc, costs, df_abs, session, disk>>
    /\ UNCHANGED NavIdle

\* step 2, Back
Nav2Back ==
    /\ step = 2 /\ pc = "buttons"
    /\ step' = 1
    /\ page' = None
    /\ hist' = Click("Back", hist.confirmed)
    /\ UNCHANGED <<pc, canopy_increase, roof_increase, park_increase, costs, df_abs,
                   session, disk>>
    /\ UNCHANGED NavIdle

\* variant: preprocessing leaves selected_cities as step 0 wrote it
CustomKeys_keep_selection(sess, city_dir, city_name) ==
    [sess EXCEPT !.custom_city_dir = city_dir]

\* preprocess_custom_data, the session keys written at its end
CustomKeys(sess, city_dir, city_name) ==
    [sess EXCEPT !.custom_city_dir = city_dir, !.selected_cities = <<city_name>>]

\* preprocess_auto_city, the session keys written at its end
AutoKeys(sess, city_query, city_dir, city_name) ==
    [sess EXCEPT !.auto_city = city_query,
                 !.auto_city_dir = city_dir,
                 !.selected_cities = <<city_name>>,
                 !.available_cities = List(@.list \cup {city_name})]

\* variant: the cost keys are not written
CostKeysWritten_none(old, c) == old

\* step 2, Run Analysis: the cost keys written into the session
CostKeysWritten(old, c) == c

\* step 2, Run Analysis: the cost keys go into the session, an uploaded
\* city is preprocessed, else an auto-fetched one (fetched: Earth Engine
\* and OSM answer; if not, the exception ends the run on step 2)
Nav2RunAnalysis(c, fetched) ==
    /\ step = 2 /\ pc = "buttons"
    /\ costs' = CostKeysWritten(costs, c)
    /\ IF session.custom_aoi # None
       THEN LET city_name == Replace(IF session.custom_city_name = None THEN Custom_AOI
                                     ELSE session.custom_city_name)
                city_dir == PathJoin(BASE_DIR, city_name)
            IN  /\ disk' = [disk EXCEPT !.dirs[city_dir] = preprocess_custom_data(session.custom_aoi)]
                /\ session' = CustomKeys(session, city_dir, city_name)
                /\ step' = 31 /\ pc' = "render" /\ page' = None
       ELSE IF session.auto_city # None
       THEN LET city_query == session.auto_city
                city_name == Replace(city_query)
                city_dir == PathJoin(BASE_DIR, city_name)
            IN  IF fetched
                THEN /\ disk' = [disk EXCEPT !.dirs[city_dir] = preprocess_auto_city(RawData),
                                             !.cities_file = session.available_cities.list \cup {city_name}]
                     /\ session' = AutoKeys(session, city_query, city_dir, city_name)
                     /\ step' = 31 /\ pc' = "render" /\ page' = None
                ELSE /\ page' = [error |-> "EEException"]
                     /\ UNCHANGED <<disk, session, step, pc>>
       ELSE /\ step' = 31 /\ pc' = "render" /\ page' = None
            /\ UNCHANGED <<disk, session>>
    /\ hist' = Click("Run Analysis", hist.confirmed)
    /\ UNCHANGED <<canopy_increase, roof_increase, park_increase, df_abs>>
    /\ UNCHANGED NavIdle

\* variant: a directory remembered in the session wins for every city
city_dir_sticky(sess, city) ==
    IF sess.custom_city_dir # None THEN sess.custom_city_dir
    ELSE IF sess.auto_city_dir # None THEN sess.auto_city_dir
    ELSE PathJoin(BASE_DIR, city)

\* process_city, where the city's data is looked for
city_dir(sess, city) ==
    LET selected == IF sess.selected_cities = None THEN <<>> ELSE sess.selected_cities
        listed == \E i \in DOMAIN selected : selected[i] = city
    IN  IF sess.custom_city_dir # None /\ listed THEN sess.custom_city_dir
        ELSE IF sess.auto_city_dir # None /\ listed THEN sess.auto_city_dir
        ELSE PathJoin(BASE_DIR, city)

\* the columns of the metrics table in insertion order
GridOrder == <<"Baseline", "Canopy", "Roofs", "Parks">>

\* step 3A, the quick insights of one row of df_abs: percent reduction of
\* each scenario, 0 when the baseline is not positive
quick_insights(row) ==
    [ X \in Scenarios |->
        IF GtZero(row.Baseline)
        THEN RMul(RDiv(RSub(row.Baseline, row[X]), row.Baseline), Num(100))
        ELSE Zero ]

\* one round of the loop: the city, the directory process_city read, its
\* result, and whether the round raised (in process_city or on a raster
\* the step opens itself under BASE_DIR/city)
CityRound(city, dir, res, base, own) ==
    [ city |-> city, dir |-> dir, result |-> res,
      raised |-> \/ res = Raised
                 \/ \E n \in own : load_raster(base, n) = Raised ]

\* the loop over selected_cities of steps 3A and 3B: per city the
\* directory process_city reads and its result, and the rasters the step
\* opens itself under BASE_DIR/city
CityLoop(sess, dsk, boosts, own) ==
    [ i \in DOMAIN sess.selected_cities |->
        CityRound(sess.selected_cities[i],
                  city_dir(sess, sess.selected_cities[i]),
                  process_city(dsk.dirs[city_dir(sess, sess.selected_cities[i])],
                               boosts.Canopy, boosts.Roofs, boosts.Parks),
                  dsk.dirs[PathJoin(BASE_DIR, sess.selected_cities[i])],
                  own) ]

\* the rounds of the loop that ran: up to the first that raised
Ran(loop) ==
    LET bad == {i \in DOMAIN loop : loop[i].raised}
        last == IF bad = {} THEN Len(loop) ELSE IntMin(bad)
    IN  SubSeq(loop, 1, last)
Reads(loop) == [i \in DOMAIN loop |-> [city |-> loop[i].city, dir |-> loop[i].dir]]
Failed(loop) == \E i \in DOMAIN loop : loop[i].raised

\* the (title, file) pairs step 3A keeps for the report: one per city that
\* got through and scenario
Figs(loop) ==
    LET done == SelectSeq(loop, LAMBDA r : ~r.raised) IN
    [ k \in 1..(4 * Len(done)) |-> <<done[((k - 1) \div 4) + 1].city, GridOrder[((k - 1) % 4) + 1]>> ]

\* the metrics table of the cities that got through: df_abs
MetricsOf(loop) ==
    [ c \in {loop[i].city : i \in DOMAIN loop} |->
        MetricsTable(loop[CHOOSE j \in DOMAIN loop : loop[j].city = c].result.metrics) ]

\* step 3A after the loop: a round that raised ends the script with the
\* figures made so far; else df_abs, the quick insights and the figures
\* for the report
Nav3aAfterLoop(loop, table) ==
    IF Failed(loop)
    THEN /\ page' = [error |-> "RasterioIOError", reads |-> Reads(loop)]
         /\ pc' = "error"
         /\ session' = [session EXCEPT !.heatmap_figs = List(Figs(loop))]
         /\ UNCHANGED df_abs
    ELSE /\ df_abs' = table
         /\ page' = [ reads |-> Reads(loop),
                      insights |-> [c \in DOMAIN table |-> quick_insights(table[c])] ]
         /\ pc' = "buttons"
         /\ session' = [session EXCEPT !.heatmap_figs = List(Figs(loop)),
                                       !.prepared_heatmaps = List(Figs(loop))]

\* the rounds that ran, then what follows them
Nav3aLoop(loop) == Nav3aAfterLoop(loop, IF Failed(loop) THEN None ELSE MetricsOf(loop))

\* step 3A script: the loop over the selected cities, the metrics table,
\* the quick insights, the figures for the report
Nav3aScript ==
    /\ step = 31 /\ pc = "render"
    /\ IF canopy_increase = None \/ roof_increase = None \/ park_increase = None
       THEN /\ page' = [error |-> "KeyError"]
            /\ pc' = "error"
            /\ UNCHANGED <<session, df_abs>>
       ELSE IF session.selected_cities = None
       THEN /\ page' = [error |-> "KeyError"]
            /\ pc' = "error"
            /\ session' = [session EXCEPT !.heatmap_figs = List(<<>>)]
            /\ UNCHANGED df_abs
       ELSE Nav3aLoop(Ran(CityLoop(session, disk, Boosts, {"heat_index"})))
    /\ UNCHANGED <<step, canopy_increase, roof_increase, park_increase, costs, disk, hist>>
    /\ UNCHANGED NavIdle

\* step 3A, Back
Nav3aBack ==
    /\ step = 31 /\ pc = "buttons"
    /\ step' = 2
    /\ page' = None
    /\ hist' = Click("Back", hist.confirmed)
    /\ UNCHANGED <<pc, canopy_increase, roof_increase, park_increase, costs, df_abs,
                   session, disk>>
    /\ UNCHANGED NavIdle

\* step 3A, Next
Nav3aNext ==
    /\ step = 31 /\ pc = "buttons"
    /\ step' = 32
    /\ pc' = "render"
    /\ page' = None
    /\ hist' = Click("Next", hist.confirmed)
    /\ UNCHANGED <<canopy_increase, roof_increase, park_increase, costs, df_abs,
                   session, disk>>
    /\ UNCHANGED NavIdle

\* step 3B after the loop: a round that raised ends the script
Nav3bLoop(loop) ==
    IF Failed(loop)
    THEN /\ page' = [error |-> "RasterioIOError", reads |-> Reads(loop)]
         /\ pc' = "error"
    ELSE /\ page' = [reads |-> Reads(loop)]
         /\ pc' = "buttons"

\* step 3B script: process_city for each selected city, then the four
\* rasters from BASE_DIR/city for the hotspots and the digital twin; the
\* script keeps nothing in the session
Nav3bScript ==
    /\ step = 32 /\ pc = "render"
    /\ IF \/ canopy_increase = None \/ roof_increase = None \/ park_increase = None
          \/ session.selected_cities = None
       THEN /\ page' = [error |-> "KeyError"]
            /\ pc' = "error"
       ELSE Nav3bLoop(Ran(CityLoop(session, disk, Boosts, RasterNames)))
    /\ UNCHANGED <<step, canopy_increase, roof_increase, park_increase, costs, df_abs,
                   session, disk, hist>>
    /\ UNCHANGED NavIdle

\* step 3B, Back
Nav3bBack ==
    /\ step = 32 /\ pc = "buttons"
    /\ step' = 31
    /\ pc' = "render"
    /\ page' = None
    /\ hist' = Click("Back", hist.confirmed)
    /\ UNCHANGED <<canopy_increase, roof_increase, park_increase, costs, df_abs,
                   session, disk>>
    /\ UNCHANGED NavIdle

\* step 3B, Next
Nav3bNext ==
    /\ step = 32 /\ pc = "buttons"
    /\ step' = 33
    /\ pc' = "render"
    /\ page' = None
    /\ hist' = Click("Next", hist.confirmed)
    /\ UNCHANGED <<canopy_increase, roof_increase, park_increase, costs, df_abs,
                   session, disk>>
    /\ UNCHANGED NavIdle

\* step 3C script: the tables of step3c for every row of df_abs
Nav3cScript ==
    /\ step = 33 /\ pc = "render"
    /\ IF df_abs = None \/ costs = None
       THEN /\ page' = [error |-> "KeyError"]
            /\ pc' = "error"
       ELSE /\ page' = [econ |-> [c \in DOMAIN df_abs |-> step3c(df_abs[c], costs)]]
            /\ pc' = "buttons"
    /\ UNCHANGED <<step, canopy_increase, roof_increase, park_increase, costs, df_abs,
                   session, disk, hist>>
    /\ UNCHANGED NavIdle

\* variant: Back on step 3C skips the explainability step
Nav3cBack_to_3a ==
    /\ step = 33 /\ pc = "buttons"
    /\ step' = 31
    /\ pc' = "render"
    /\ page' = None
    /\ hist' = Click("Back", hist.confirmed)
    /\ UNCHANGED <<canopy_increase, roof_increase, park_increase, costs, df_abs,
                   session, disk>>
    /\ UNCHANGED NavIdle

\* step 3C, Back
Nav3cBack ==
    /\ step = 33 /\ pc = "buttons"
    /\ step' = 32
    /\ pc' = "render"
    /\ page' = None
    /\ hist' = Click("Back", hist.confirmed)
    /\ UNCHANGED <<canopy_increase, roof_increase, park_increase, costs, df_abs,
                   session, disk>>
    /\ UNCHANGED NavIdle

\* step 3C, Next
Nav3cNext ==
    /\ step = 33 /\ pc = "buttons"
    /\ step' = 34
    /\ pc' = "render"
    /\ page' = None
    /\ hist' = Click("Next", hist.confirmed)
    /\ UNCHANGED <<canopy_increase, roof_increase, park_increase, costs, df_abs,
                   session, disk>>
    /\ UNCHANGED NavIdle

\* ------------------------------------ step3d_policy_game.py (challenges)
challenges ==
    << [goal |-> "30% heat reduction", min_reduction |-> 30, max_cost |-> 80],
       [goal |-> "2000 tons CO2/yr captured", min_co2 |-> 2000, max_cost |-> 100],
       [goal |-> "20% reduction with 50M", min_reduction |-> 20, max_cost |-> 50] >>
\* dict.get(key, default)
Get(dict, key, default) == IF key \in DOMAIN dict THEN dict[key] ELSE default

\* random.randint(30, 100), the placeholder cost in M EUR: the values on
\* both sides of each max_cost
GameCosts == {30, 50, 51, 80, 81, 100}

\* a >= b on floats
FloatGe(a, b) ==
    IF a = NaN \/ b = NaN THEN FALSE
    ELSE IF a = Inf THEN TRUE
    ELSE IF b = NegInf THEN TRUE
    ELSE IF a = NegInf \/ b = Inf THEN FALSE
    ELSE RGe(a, b)

\* the best percent reduction of one row of df_abs, as the challenge
\* evaluation computes it: no guard on the baseline, no rounding
game_reduction(row) ==
    NanMax({ FloatScale(FloatDiv(RSub(row.Baseline, row[X]), row.Baseline), Num(100)) :
             X \in Scenarios })

\* the test behind "meets the challenge"
meets(challenge, reduction, cost) ==
    /\ FloatGe(reduction, Num(Get(challenge, "min_reduction", 0)))
    /\ cost <= challenge.max_cost

\* step 3D script: the active challenge is drawn if there is none, then
\* every city of df_abs is evaluated with a random cost (one draw serves
\* all cities of a run)
Nav3dScript(choice, cost) ==
    /\ step = 34 /\ pc = "render"
    /\ LET challenge == IF session.active_challenge = None THEN challenges[choice]
                        ELSE session.active_challenge
       IN  /\ session' = [session EXCEPT !.active_challenge = challenge]
           /\ page' =
                IF df_abs = None THEN [challenge |-> challenge]
                ELSE [ challenge |-> challenge,
                       verdict |-> [ c \in DOMAIN df_abs |->
                           LET reduction == game_reduction(df_abs[c])
                           IN  [ reduction |-> reduction, cost |-> cost,
                                 meets |-> meets(challenge, reduction, cost) ] ] ]
    /\ pc' = "buttons"
    /\ UNCHANGED <<step, canopy_increase, roof_increase, park_increase, costs, df_abs,
                   disk, hist>>
    /\ UNCHANGED NavIdle

\* step 3D, New Challenge (the keys of the planting mini-game that it pops
\* are not followed)
Nav3dNewChallenge(choice) ==
    /\ step = 34 /\ pc = "buttons"
    /\ session' = [session EXCEPT !.active_challenge = challenges[choice]]
    /\ pc' = "render"
    /\ page' = None
    /\ hist' = Click("New Challenge", hist.confirmed)
    /\ UNCHANGED <<step, canopy_increase, roof_increase, park_increase, costs, df_abs, disk>>
    /\ UNCHANGED NavIdle

\* step 3D, Back
Nav3dBack ==
    /\ step = 34 /\ pc = "buttons"
    /\ step' = 33
    /\ pc' = "render"
    /\ page' = None
    /\ hist' = Click("Back", hist.confirmed)
    /\ UNCHANGED <<canopy_increase, roof_increase, park_increase, costs, df_abs,
                   session, disk>>
    /\ UNCHANGED NavIdle

\* step 3D, Next
Nav3dNext ==
    /\ step = 34 /\ pc = "buttons"
    /\ step' = 4
    /\ pc' = "render"
    /\ page' = None
    /\ hist' = Click("Next", hist.confirmed)
    /\ UNCHANGED <<canopy_increase, roof_increase, park_increase, costs, df_abs,
                   session, disk>>
    /\ UNCHANGED NavIdle

\* ------------------------------------------ step4_feedback.py (feedback)
\* the shapes a user can have drawn on the map when a button is pressed
Geometries == {"point", "polygon"}
Drawings == {<<>>} \cup {<<g>> : g \in Geometries} \cup {<<"point", "polygon">>}
\* the details typed into the form
People ==
    { [name |-> "Ana", profession |-> "planner", company |-> "city", nationality |-> "PT"],
      [name |-> "Ben", profession |-> "engineer", company |-> "utility", nationality |-> "CH"] }
\* uuid.uuid4()
Uuids == {1, 2}
\* the stakeholder file holds at most MaxRows features
MaxRows == 3

\* the GeoDataFrame of the drawn features: geometry, category (each
\* selector left at its first option), user_id; the timestamp is left out
DrawnFrame(drawings, user_id) ==
    [ i \in DOMAIN drawings |->
        [geometry |-> drawings[i], category |-> "Trees", user_id |-> user_id.uuid] ]

\* variant: the details go to the new rows only
SavedFrame_new_rows(existing, gdf, person) ==
    (IF existing = None THEN <<>> ELSE existing)
        \o [ i \in DOMAIN gdf |->
               [ geometry |-> gdf[i].geometry, category |-> gdf[i].category,
                 user_id |-> gdf[i].user_id, name |-> person.name,
                 profession |-> person.profession, company |-> person.company,
                 nationality |-> person.nationality ] ]

\* the frame written on Submit: the rows of the file, then the drawn rows
\* (pd.concat), and the four detail columns assigned to the whole frame
SavedFrame(existing, gdf, person) ==
    LET rows == (IF existing = None THEN <<>> ELSE existing) \o gdf IN
    [ i \in DOMAIN rows |->
        [ geometry |-> rows[i].geometry, category |-> rows[i].category,
          user_id |-> rows[i].user_id, name |-> person.name,
          profession |-> person.profession, company |-> person.company,
          nationality |-> person.nationality ] ]

\* step 4 script: the session gets a user_id if it has none
Nav4Script(uuid) ==
    /\ step = 4 /\ pc = "render"
    /\ session' = IF session.user_id = None
                  THEN [session EXCEPT !.user_id = [uuid |-> uuid]]
                  ELSE session
    /\ pc' = "buttons"
    /\ page' = None
    /\ UNCHANGED <<step, canopy_increase, roof_increase, park_increase, costs, df_abs,
                   disk, hist>>
    /\ UNCHANGED NavIdle

\* step 4, Save My Inputs (shown once something is drawn): the form opens
Nav4SaveMyInputs(drawings) ==
    /\ step = 4 /\ pc \in {"buttons", "error"}
    /\ Len(drawings) > 0
    /\ session' = [session EXCEPT !.show_metadata_form = [value |-> TRUE]]
    /\ pc' = "buttons"
    /\ page' = [form |-> "metadata_form"]
    /\ hist' = Click("Save My Inputs", hist.confirmed)
    /\ UNCHANGED <<step, canopy_increase, roof_increase, park_increase, costs, df_abs, disk>>
    /\ UNCHANGED NavIdle

\* step 4, Submit of the form: with nothing drawn in this run gdf is not
\* bound and the run ends in a NameError above the navigation buttons
Nav4Submit(drawings, person) ==
    /\ step = 4 /\ pc \in {"buttons", "error"}
    /\ session.show_metadata_form = [value |-> TRUE]
    /\ (IF disk.stakeholder_inputs = None THEN 0 ELSE Len(disk.stakeholder_inputs))
           + Len(drawings) <= MaxRows
    /\ IF Len(drawings) = 0
       THEN /\ page' = [error |-> "NameError"]
            /\ pc' = "error"
            /\ UNCHANGED <<session, disk>>
       ELSE /\ disk' = [disk EXCEPT !.stakeholder_inputs =
                          SavedFrame(@, DrawnFrame(drawings, session.user_id), person)]
            /\ session' = [session EXCEPT !.show_metadata_form = [value |-> FALSE]]
            /\ page' = [success |-> "saved", person |-> person,
                        rows |-> DrawnFrame(drawings, session.user_id)]
            /\ pc' = "buttons"
    /\ hist' = Click("Submit", hist.confirmed)
    /\ UNCHANGED <<step, canopy_increase, roof_increase, park_increase, costs, df_abs>>
    /\ UNCHANGED NavIdle

\* step 4, Back
Nav4Back ==
    /\ step = 4 /\ pc = "buttons"
    /\ step' = 34
    /\ pc' = "render"
    /\ page' = None
    /\ hist' = Click("Back", hist.confirmed)
    /\ UNCHANGED <<canopy_increase, roof_increase, park_increase, costs, df_abs,
                   session, disk>>
    /\ UNCHANGED NavIdle

\* step 4, Next
Nav4Next ==
    /\ step = 4 /\ pc = "buttons"
    /\ step' = 5
    /\ page' = None
    /\ hist' = Click("Next", hist.confirmed)
    /\ UNCHANGED <<pc, canopy_increase, roof_increase, park_increase, costs, df_abs,
                   session, disk>>
    /\ UNCHANGED NavIdle

\* ------------------------------------ step5_results_export.py (export)
\* export_pdf_report, the executive summary: per city the reduction of the
\* best scenario, 0 when the baseline is not positive
pdf_summary(table) ==
    IF table = None THEN None
    ELSE [ c \in DOMAIN table |->
             LET baseline == table[c].Baseline
                 best_value == RMinimum(RMinimum(table[c].Canopy, table[c].Roofs), table[c].Parks)
             IN  IF GtZero(baseline)
                 THEN RMul(RDiv(RSub(baseline, best_value), baseline), Num(100))
                 ELSE Zero ]

\* step 5, Generate PDF Report: the report is written and offered for
\* download (the file is never read back and is kept on the page only)
Nav5GeneratePdf ==
    /\ step = 5 /\ pc = "buttons"
    /\ page' = [download |-> "UrbanHeat_Report.pdf", summary |-> pdf_summary(df_abs)]
    /\ hist' = Click("Generate PDF Report", hist.confirmed)
    /\ UNCHANGED <<step, pc, canopy_increase, roof_increase, park_increase, costs, df_abs,
                   session, disk>>
    /\ UNCHANGED NavIdle

\* step 5, Finish
Nav5Finish ==
    /\ step = 5 /\ pc = "buttons"
    /\ page' = [success |-> "Workflow complete!"]
    /\ hist' = Click("Finish", hist.confirmed)
    /\ UNCHANGED <<step, pc, canopy_increase, roof_increase, park_increase, costs, df_abs,
                   session, disk>>
    /\ UNCHANGED NavIdle

\* step 5, Back
Nav5Back ==
    /\ step = 5 /\ pc = "buttons"
    /\ step' = 4
    /\ pc' = "render"
    /\ page' = None
    /\ hist' = Click("Back", hist.confirmed)
    /\ UNCHANGED <<canopy_increase, roof_increase, park_increase, costs, df_abs,
                   session, disk>>
    /\ UNCHANGED NavIdle

\* variant: the reset keeps where the rasters were written
Clear_keep_dirs(sess) ==
    [ k \in SessionKeys |->
        IF k \in {"custom_city_dir", "auto_city_dir"} THEN sess[k] ELSE None ]

\* st.session_state.clear(), the keys followed in session
Clear(sess) == Cleared

\* step 5, New City Selection: every key of the session goes, step is set
\* to 0, and app.py's next run loads available_cities again
Nav5NewCity ==
    /\ step = 5 /\ pc = "buttons"
    /\ session' = AppInit(Clear(session), disk)
    /\ canopy_increase' = None
    /\ roof_increase' = None
    /\ park_increase' = None
    /\ costs' = None
    /\ df_abs' = None
    /\ step' = 0
    /\ page' = None
    /\ hist' = Click("New City Selection", None)
    /\ UNCHANGED <<pc, disk>>
    /\ UNCHANGED NavIdle

\* the preset of step 1 the navigation specifications take
Moderate == [Canopy |-> Rat(2, 10), Roofs |-> Rat(3, 10), Parks |-> Rat(25, 100)]

\* the wizard with every navigation button, for the sessions that take
\* the Moderate preset and the default costs and leave the map of the
\* feedback step untouched
NextNav ==
    \/ \E query \in AutoQueries, found \in BOOLEAN, use_custom \in BOOLEAN, upload \in Uploads :
          Nav0AutoFetch(query, found, use_custom, upload)
    \/ \E selected \in Selections(session.available_cities.list),
          use_custom \in BOOLEAN, upload \in Uploads :
          Nav0Next(selected, use_custom, upload)
    \/ Nav1Back
    \/ \E b \in {Moderate} : Nav1Next(b)
    \/ Nav2Back
    \/ \E c \in {DefaultCosts}, fetched \in BOOLEAN : Nav2RunAnalysis(c, fetched)
    \/ Nav3aScript
    \/ Nav3aBack
    \/ Nav3aNext
    \/ Nav3bScript
    \/ Nav3bBack
    \/ Nav3bNext
    \/ Nav3cScript
    \/ Nav3cBack
    \/ Nav3cNext
    \/ \E choice \in {1}, cost \in {30} : Nav3dScript(choice, cost)
    \/ \E choice \in {1} : Nav3dNewChallenge(choice)
    \/ Nav3dBack
    \/ Nav3dNext
    \/ \E uuid \in {1} : Nav4Script(uuid)
    \/ Nav4Back
    \/ Nav4Next
    \/ Nav5GeneratePdf
    \/ Nav5Finish
    \/ Nav5Back
    \/ Nav5NewCity

SpecNav == Init /\ [][NextNav]_vars

\* the feedback step: one straight pass through the wizard with Lisbon,
\* then any sequence of drawings and submissions on step 4
NextFeedback ==
    \/ \E selected \in {<<Lisbon>>}, upload \in {[status |-> "incomplete", name |-> <<>>]} :
          Nav0Next(selected, FALSE, upload)
    \/ \E b \in {Moderate} : Nav1Next(b)
    \/ \E c \in {DefaultCosts} : Nav2RunAnalysis(c, TRUE)
    \/ Nav3aScript
    \/ Nav3aNext
    \/ Nav3bScript
    \/ Nav3bNext
    \/ Nav3cScript
    \/ Nav3cNext
    \/ \E choice \in {1}, cost \in {30} : Nav3dScript(choice, cost)
    \/ Nav3dNext
    \/ \E uuid \in Uuids : Nav4Script(uuid)
    \/ \E drawings \in Drawings : Nav4SaveMyInputs(drawings)
    \/ \E drawings \in Drawings, person \in People : Nav4Submit(drawings, person)

SpecFeedback == Init /\ [][NextFeedback]_vars

\* the challenge step: a straight pass through the wizard with one or both
\* of the complete predefined cities, then every challenge and every cost
NextGame ==
    \/ \E selected \in Selections({Lisbon, Zurich}) \ {<<>>},
          upload \in {[status |-> "incomplete", name |-> <<>>]} :
          Nav0Next(selected, FALSE, upload)
    \/ \E b \in Presets : Nav1Next(b)
    \/ \E c \in {DefaultCosts} : Nav2RunAnalysis(c, TRUE)
    \/ Nav3aScript
    \/ Nav3aNext
    \/ Nav3bScript
    \/ Nav3bNext
    \/ Nav3cScript
    \/ Nav3cNext
    \/ \E choice \in DOMAIN challenges, cost \in GameCosts : Nav3dScript(choice, cost)
    \/ \E choice \in DOMAIN challenges : Nav3dNewChallenge(choice)

SpecGame == Init /\ [][NextGame]_vars


\* ================================================================ claims
\* two rasters hold the same value at every pixel (nan matching nan)
SameRaster(A, B) ==
    /\ Shape(A) = Shape(B)
    /\ \A p \in Shape(A) : (p \in A.nan /\ p \in B.nan) \/ PxEq(A, B, p)

\* the eligibility masks, from the rasters on disk
MaskOf(X) ==
    IF X = "Canopy" THEN CanopyMask(files.heat_index)
    ELSE IF X = "Roofs" THEN RoofMask(files.slope, files.buildings)
    ELSE ParkMask(files.buildings, files.ndvi_norm)

Masks == [X \in Scenarios |-> MaskOf(X)]

\* step 3A has drawn its page
Processed == city_result \notin {None, Raised}
ZeroBoosts == \A X \in Scenarios : city_result.args[X] = Zero

\* C1: with all three boosts 0, every scenario heat grid equals the returned
\* Baseline grid (the one loaded from heat_index.tif) and every scenario
\* area equals the Baseline area, whatever pipeline produced the city.
C1_ZeroBoostIdentity ==
    (Processed /\ ZeroBoosts) =>
        \A X \in Scenarios :
            /\ SameRaster(city_result.heatmaps[X], city_result.heatmaps.Baseline)
            /\ city_result.metrics[X] = city_result.metrics.Baseline

\* C2: on the worked example (10 x 10 pixels, all heat values tie) with a
\* canopy boost of 0.3 the Canopy scenario boosts exactly 20 pixels and its
\* high-heat area is 0.008 km2 against a baseline of 0.01 km2.
C2_CanopyBoostsTwentyPercent ==
    (Processed /\ files = ExampleCity /\ city_result.args.Canopy = Rat(3, 10)) =>
        /\ Cardinality({p \in Shape(files.heat_index) : city_result.masks.Canopy[p]}) = 20
        /\ city_result.metrics.Baseline = Rat(1, 100)
        /\ city_result.metrics.Canopy = Rat(8, 1000)

\* C5: in scenario X a pixel holds min(1, vegetation + boost_X) if it is in
\* X's eligibility mask and the loaded vegetation otherwise.
C5_ScenarioApplication ==
    Processed =>
        LET mask == Masks IN
        \A X \in Scenarios : \A p \in Shape(files.ndvi_norm) :
            Px(city_result.ndvi[X], p) =
                IF mask[X][p]
                THEN RMinimum(One, RAdd(Px(files.ndvi_norm, p), city_result.args[X]))
                ELSE Px(files.ndvi_norm, p)

\* a pixel of some scenario was boosted without reaching the cap, and a
\* pixel of the same scenario lies outside the mask
C5_Witness ==
    /\ Processed
    /\ \E X \in Scenarios : \E p, q \in Shape(files.ndvi_norm) :
        /\ MaskOf(X)[p] /\ ~MaskOf(X)[q]
        /\ RGt(city_result.args[X], Zero)
        /\ RLt(Px(city_result.ndvi[X], p), One)
        /\ RGt(Px(city_result.ndvi[X], p), Px(files.ndvi_norm, p))

\* the run with scenario X's boost set to b, everything else as it is
Rerun(X, b) ==
    LET a == [city_result.args EXCEPT ![X] = b]
    IN  process_city(files, a.Canopy, a.Roofs, a.Parks)

\* C6: changing one scenario's boost leaves the masks, heat grids and areas
\* of the other two scenarios and of Baseline as they are.
C6_ScenarioIndependence ==
    Processed =>
        \A X \in Scenarios : \A b \in {Zero, Rat(1, 2)} :
            LET other == Rerun(X, b) IN
            /\ \A Y \in Scenarios \ {X} :
                /\ other.masks[Y] = city_result.masks[Y]
                /\ SameRaster(other.heatmaps[Y], city_result.heatmaps[Y])
                /\ other.metrics[Y] = city_result.metrics[Y]
            /\ SameRaster(other.heatmaps.Baseline, city_result.heatmaps.Baseline)
            /\ other.metrics.Baseline = city_result.metrics.Baseline

\* some scenario's own area does react to its boost, next to a scenario
\* with a non-empty mask that must not
C6_Witness ==
    /\ Processed
    /\ \E X \in Scenarios : \E Y \in Scenarios \ {X} :
        /\ Rerun(X, Zero).metrics[X] # Rerun(X, Rat(1, 2)).metrics[X]
        /\ \E p \in Shape(files.ndvi_norm) : city_result.masks[Y][p]
        /\ RGt(city_result.args[Y], Zero)

\* C7: a larger boost of scenario X never gives X a larger high-heat area.
C7_BoostMonotonicity ==
    Processed =>
        \A X \in Scenarios : \A b \in {Zero, Rat(1, 4), Rat(1, 2)} :
            IF RLe(b, city_result.args[X])
            THEN RGe(Rerun(X, b).metrics[X], city_result.metrics[X])
            ELSE RLe(Rerun(X, b).metrics[X], city_result.metrics[X])

\* the boost in use gives a strictly smaller area than no boost, and a
\* smaller boost would not have been enough
C7_Witness ==
    /\ Processed
    /\ \E X \in Scenarios :
        /\ RGt(city_result.args[X], Rat(1, 4))
        /\ RLt(city_result.metrics[X], Rerun(X, Zero).metrics[X])
        /\ Rerun(X, Rat(1, 4)).metrics[X] = Rerun(X, Zero).metrics[X]

\* C10: every scenario heat grid is built - vegetation + slope * 0.2 pixel
\* by pixel, unclamped, and has the shape of the inputs.
C10_HeatIndex ==
    Processed =>
        \A X \in Scenarios :
            /\ Shape(city_result.heatmaps[X]) = Shape(files.ndvi_norm)
            /\ \A p \in Shape(files.ndvi_norm) :
                Px(city_result.heatmaps[X], p) =
                    RAdd(RSub(Px(files.buildings, p), Px(city_result.ndvi[X], p)),
                         RMul(Px(files.slope, p), Rat(2, 10)))

\* a heat grid with a pixel below 0 and a pixel above 1
C10_Witness ==
    /\ Processed
    /\ \E X \in Scenarios : \E p, q \in Shape(files.ndvi_norm) :
        /\ RLt(Px(city_result.heatmaps[X], p), Zero)
        /\ RGt(Px(city_result.heatmaps[X], q), One)

\* ------------------------------------------------ claims on the twin
\* step 3B has drawn its page
Simulated == temporal_results \notin {None, Raised}
Years == 0..LastYear
\* the share of the full boost reached after year years of a span-year ramp
Factor(year, span) == Rat(IF year < span THEN year ELSE span, span)
\* min(1, veg + boost * factor) for one pixel value
Boosted(veg, boost, factor) == RMinimum(One, RAdd(veg, RMul(boost, factor)))
\* the masks a pixel can share with the canopy mask, with their ramps
Later == { [name |-> "Roofs", span |-> RoofYears], [name |-> "Parks", span |-> ParkYears] }
Overlap(mask, L, p) == mask.Canopy[p] /\ mask[L.name][p]

\* C3 as stated: where the canopy mask and a later mask overlap, the year-y
\* vegetation is min(1, original + later_boost * later_factor): the later
\* assignment replaces the earlier one.
C3_LastAppliedWins ==
    Simulated =>
        LET mask == Masks IN
        \A L \in Later : \A p \in Shape(files.ndvi_norm) : \A y \in Years :
            Overlap(mask, L, p) =>
                Px(temporal_results.ndvi_sim[y + 1], p) =
                    Boosted(Px(files.ndvi_norm, p), Boosts[L.name], Factor(y, L.span))

\* C3 amended: where the canopy mask and a later mask overlap, the later
\* boost is added to the already canopy-boosted (and capped) value:
\* min(1, min(1, original + canopy * tree_factor) + later_boost * later_factor).
C3_BoostsAccumulate ==
    Simulated =>
        LET mask == Masks IN
        \A L \in Later : \A p \in Shape(files.ndvi_norm) : \A y \in Years :
            Overlap(mask, L, p) =>
                Px(temporal_results.ndvi_sim[y + 1], p) =
                    Boosted(Boosted(Px(files.ndvi_norm, p), Boosts.Canopy,
                                    Factor(y, TreeYears)),
                            Boosts[L.name], Factor(y, L.span))

\* an overlap pixel in a year where both boosts are under way and the sum
\* stays below the cap
C3_Witness ==
    /\ Simulated
    /\ \E y \in Years : \E L \in Later : \E p \in Shape(files.ndvi_norm) :
        /\ Overlap(Masks, L, p)
        /\ RGt(RMul(Boosts.Canopy, Factor(y, TreeYears)), Zero)
        /\ RGt(RMul(Boosts[L.name], Factor(y, L.span)), Zero)
        /\ RLt(Px(temporal_results.ndvi_sim[y + 1], p), One)

\* C4: the year-0 heat grid of the twin equals the baseline snapshot and
\* the year-0 high-heat area equals the Baseline area of process_city.
C4_YearZeroIsBaseline ==
    Simulated =>
        /\ SameRaster(temporal_results.heat_sim[1], temporal_results.heatmap_baseline)
        /\ temporal_results.heat_area[1] = city_result.metrics.Baseline

\* the loaded vegetation lies in [0, 1] at every pixel
VegInRange ==
    /\ files # None
    /\ files.ndvi_norm # None
    /\ \A p \in Shape(files.ndvi_norm) :
        RGe(Px(files.ndvi_norm, p), Zero) /\ RLe(Px(files.ndvi_norm, p), One)

\* C8: with the loaded vegetation in [0, 1] (and the boosts from the
\* sliders, in [0, 0.5]) no scenario vegetation grid of process_city and
\* no per-year vegetation grid of the twin has a value above 1.
C8_ClampInvariant ==
    VegInRange =>
        /\ Processed =>
             \A X \in Scenarios : \A p \in Shape(files.ndvi_norm) :
                 RLe(Px(city_result.ndvi[X], p), One)
        /\ Simulated =>
             \A y \in Years : \A p \in Shape(files.ndvi_norm) :
                 RLe(Px(temporal_results.ndvi_sim[y + 1], p), One)

\* the cap was needed: a scenario pixel and a twin pixel sit at 1 although
\* vegetation + boost exceeds 1
C8_Witness ==
    /\ Simulated /\ VegInRange
    /\ \E X \in Scenarios : \E p \in Shape(files.ndvi_norm) :
        /\ MaskOf(X)[p]
        /\ RGt(RAdd(Px(files.ndvi_norm, p), Boosts[X]), One)
        /\ Px(city_result.ndvi[X], p) = One
        /\ Px(temporal_results.ndvi_sim[LastYear + 1], p) = One

\* C9: the loaded grids are as they were on disk after process_city and
\* after the year loop; a scenario's grid differs from the loaded one only
\* inside its own mask; and every year of the loop gives what that year
\* alone gives on the grids from disk.
C9_InputsNotMutated ==
    /\ Processed =>
         /\ city_result.ndvi_norm = files.ndvi_norm
         /\ city_result.slope_norm = files.slope
         /\ city_result.built_raster = files.buildings
         /\ city_result.heatmaps.Baseline = files.heat_index
         /\ LET mask == Masks IN
            \A X \in Scenarios : \A p \in Shape(files.ndvi_norm) :
              ~mask[X][p] => Px(city_result.ndvi[X], p) = Px(files.ndvi_norm, p)
    /\ Simulated =>
         /\ temporal_results.ndvi_norm = files.ndvi_norm
         /\ temporal_results.heatmap_baseline = files.heat_index
         /\ \A y \in Years :
              LET alone == SimYear(y, files.ndvi_norm, files.slope, files.buildings,
                                   files.heat_index, Boosts)
              IN  /\ alone.ndvi_sim = temporal_results.ndvi_sim[y + 1]
                  /\ alone.area = temporal_results.heat_area[y + 1]

\* writes did happen: two scenarios of process_city and two years of the
\* twin changed their working grids
C9_Witness ==
    /\ Simulated
    /\ \E X \in Scenarios : \E Y \in Scenarios \ {X} :
        /\ \E p \in Shape(files.ndvi_norm) : city_result.ndvi[X].v[p] # files.ndvi_norm.v[p]
        /\ \E p \in Shape(files.ndvi_norm) : city_result.ndvi[Y].v[p] # files.ndvi_norm.v[p]
    /\ temporal_results.ndvi_sim[2] # temporal_results.ndvi_sim[1]
    /\ temporal_results.ndvi_sim[3] # temporal_results.ndvi_sim[2]

\* ------------------------------------------------ engine contracts
Grids == Scenarios \cup {"Baseline"}
\* the pixels of a grid that are strictly hotter than 0.7; a nan pixel
\* compares false
HotPixels(heat) == {p \in Shape(heat) : RGt(Px(heat, p), Rat(7, 10))}

\* C11: the area of a heat grid is (number of pixels strictly above 0.7)
\* * 100 m2 / 1e6; a pixel at exactly 0.7 and a nan pixel are not counted.
C11_HighHeatArea ==
    Processed =>
        \A G \in Grids :
            LET heat == city_result.heatmaps[G] IN
            /\ city_result.metrics[G] =
                   RDiv(Num(Cardinality(HotPixels(heat)) * 100), Num(1000000))
            /\ \A p \in Shape(heat) :
                   (p \in heat.nan \/ Px(heat, p) = Rat(7, 10)) => p \notin HotPixels(heat)

\* a grid with a pixel at exactly 0.7 next to a hotter one, whose area is
\* one pixel's worth
C11_Witness ==
    /\ Processed
    /\ \E G \in Grids : \E p, q \in Shape(city_result.heatmaps[G]) :
        /\ Px(city_result.heatmaps[G], p) = Rat(7, 10)
        /\ RGt(Px(city_result.heatmaps[G], q), Rat(7, 10))
        /\ city_result.metrics[G] = Rat(1, 10000)

\* a grid of nan pixels only, with area 0
C11_NanGrid ==
    /\ Processed
    /\ \E G \in Grids :
        /\ city_result.heatmaps[G].nan = Shape(city_result.heatmaps[G])
        /\ city_result.metrics[G] = Zero

\* the Roofs and Parks eligibility of every pixel, read off the grids on disk
RoofEligible ==
    [p \in Shape(files.slope) |->
        RLt(Px(files.slope, p), Rat(5, 100)) /\ Px(files.buildings, p) = One]
ParkEligible ==
    [p \in Shape(files.ndvi_norm) |->
        Px(files.buildings, p) = Zero /\ RLt(Px(files.ndvi_norm, p), Rat(2, 10))]

\* C12: a pixel is Roofs-eligible iff slope < 0.05 and built = 1, and
\* Parks-eligible iff built = 0 and the unboosted vegetation < 0.2; these
\* are the masks of process_city and of every year of the year loop.
C12_RoofAndParkMasks ==
    /\ Processed =>
         /\ city_result.masks.Roofs = RoofEligible
         /\ city_result.masks.Parks = ParkEligible
    /\ Simulated =>
         LET roofs == RoofEligible
             parks == ParkEligible
         IN  \A y \in Years :
                /\ temporal_results.masks[y + 1].Roofs = roofs
                /\ temporal_results.masks[y + 1].Parks = parks

\* a park pixel that the canopy boost of the same year has already lifted
\* to 0.2 or more, and a roof pixel
C12_Witness ==
    /\ Simulated
    /\ \E p, q \in Shape(files.ndvi_norm) :
        /\ temporal_results.masks[LastYear + 1].Parks[p]
        /\ temporal_results.masks[LastYear + 1].Canopy[p]
        /\ RGe(Boosts.Canopy, Rat(2, 10))
        /\ RGe(Px(temporal_results.ndvi_sim[LastYear + 1], p), Rat(2, 10))
        /\ temporal_results.masks[LastYear + 1].Roofs[q]
        /\ city_result.masks.Roofs[q]

\* C13: in year y of 0..20 the factors are min(1, y/15), min(1, y/5) and
\* min(1, y/10); all are 0 in year 0, all lie in [0, 1], and they are 1
\* from year 15, 5 and 10 on.
C13_MaturityFactors ==
    Simulated =>
        /\ Len(temporal_results.factors) = 21
        /\ \A y \in 0..20 :
            LET f == temporal_results.factors[y + 1] IN
            /\ f.tree = RMinimum(One, RDiv(Num(y), Num(15)))
            /\ f.roof = RMinimum(One, RDiv(Num(y), Num(5)))
            /\ f.park = RMinimum(One, RDiv(Num(y), Num(10)))
            /\ (y = 0) => (f.tree = Zero /\ f.roof = Zero /\ f.park = Zero)
            /\ \A k \in {"tree", "roof", "park"} : RGe(f[k], Zero) /\ RLe(f[k], One)
            /\ (y >= 15) => f.tree = One
            /\ (y >= 5) => f.roof = One
            /\ (y >= 10) => f.park = One

\* a run whose year 7 has the roofs at full strength and the trees and
\* parks still growing
C13_Witness ==
    /\ Simulated
    /\ temporal_results.factors[8] = [tree |-> Rat(7, 15), roof |-> One, park |-> Rat(7, 10)]
    /\ temporal_results.factors[21] = [tree |-> One, roof |-> One, park |-> One]

\* C14: a run records 21 areas, one per year 0..20 in increasing order,
\* and keeps the heat grids of the years 5, 10, 15 and 20 and the baseline
\* grid, and no other.
C14_TemporalOutputs ==
    Simulated =>
        /\ temporal_results.years = [i \in 1..21 |-> i - 1]
        /\ Len(temporal_results.heat_area) = 21
        /\ \A i \in 1..21 : temporal_results.heat_area[i] = high_heat_area(temporal_results.heat_sim[i])
        /\ DOMAIN temporal_results.snapshots = {5, 10, 15, 20}
        /\ \A y \in {5, 10, 15, 20} :
               temporal_results.snapshots[y] = temporal_results.heat_sim[y + 1]
        /\ temporal_results.heatmap_baseline = files.heat_index

\* a run whose areas shrink over the years and whose four snapshots are
\* not all the same grid
C14_Witness ==
    /\ Simulated
    /\ RLt(temporal_results.heat_area[21], temporal_results.heat_area[1])
    /\ temporal_results.snapshots[5] # temporal_results.snapshots[20]

\* some raster of the city directory is not there
SomeRasterMissing == files # None /\ \E n \in RasterNames : files[n] = None

\* C19: when one of the four rasters of the city cannot be loaded,
\* process_city ends in the error and the page holds no metrics and no
\* heatmaps of the city.
C19_MissingRasterIsFatal ==
    (SomeRasterMissing /\ step = 31 /\ pc # "render") =>
        /\ city_result = Raised
        /\ pc = "error"

\* step 3A has run on a city that has three of its four rasters
C19_Witness ==
    /\ SomeRasterMissing
    /\ Cardinality({n \in RasterNames : files[n] # None}) = 3
    /\ step = 31 /\ pc = "error"
    /\ city_result = Raised

\* ---------------------------------------------------- claims on step 3C
\* step 3C has drawn its page
Costed == econ # None
Columns == {"Canopy", "Roofs", "Parks"}
\* a table entry in hundredths of a km2
Hundredths(a) == (a[1] * 100) \div a[2]
\* baseline minus scenario, in m2, from the table the step reads
DiffM2(X) == (Hundredths(df_abs.Baseline) - Hundredths(df_abs[X])) * 10000

\* C15: area_diff_m2 = (baseline area - scenario area) * 1e6, average cost
\* = (low + high)/2 * area_diff_m2 / 1e6, carbon = area_diff_m2 *
\* carbon_factor / 1000; when the scenario area exceeds the baseline area
\* all three are negative, not 0.
C15_EconomicsNotClamped ==
    Costed =>
        \A X \in Columns :
            /\ econ.area_m2[X] = Num(DiffM2(X))
            /\ econ.df_costs[X] = Rat((costs[X][1] + costs[X][2]) * DiffM2(X), 2 * 1000000)
            /\ econ.df_carbon[X] =
                   Rat(DiffM2(X) * costs.carbon_factor[1], 1000 * costs.carbon_factor[2])
            /\ RGt(df_abs[X], df_abs.Baseline) =>
                   /\ RLt(econ.area_m2[X], Zero)
                   /\ RLt(econ.df_costs[X], Zero)
                   /\ RLt(econ.df_carbon[X], Zero)

\* a scenario with more high-heat area than the baseline, with negative
\* cost and carbon, next to one with less
C15_Witness ==
    /\ Costed
    /\ \E X, Y \in Columns :
        /\ RGt(df_abs[X], df_abs.Baseline)
        /\ RLt(econ.df_costs[X], Zero) /\ RLt(econ.df_carbon[X], Zero)
        /\ RLt(df_abs[Y], df_abs.Baseline)
        /\ RGt(econ.df_costs[Y], Zero) /\ RGt(econ.df_carbon[Y], Zero)

\* C16: a city whose best percent reduction is <= 0 is still a candidate
\* of the 'most cost-efficient city' comparison, with an infinite value.
C16_CityStaysInRanking ==
    Costed =>
        /\ "city" \in DOMAIN econ.cost_eff
        /\ econ.best_city # None
        /\ ~GtZero(econ.total_reduction) => econ.cost_eff["city"] = Inf

\* the percent reduction of a column is a number above 0
Reduces(X) == IsFinite(econ.df_pct[X]) /\ econ.df_pct[X][1] > 0

\* C17: for every scenario the ratio 'MEUR per % reduction' is avg_cost /
\* pct_reduction when pct_reduction > 0 and the infinite sentinel
\* otherwise; it is never 0 because the reduction is not positive.
C17_EfficiencySentinel ==
    Costed =>
        \A X \in Columns :
            IF Reduces(X)
            THEN econ.df_eff[X].euro_per_pct = RDiv(econ.df_costs[X], econ.df_pct[X])
            ELSE /\ econ.df_eff[X].euro_per_pct = Inf
                 /\ econ.df_eff[X].euro_per_pct # Zero

\* one scenario with a negative reduction and the sentinel, one with no
\* reduction and the sentinel, one with a reduction and a finite ratio
C17_Witness ==
    /\ Costed
    /\ \E X, Y, Z \in Columns :
        /\ IsFinite(econ.df_pct[X]) /\ econ.df_pct[X][1] < 0
        /\ econ.df_eff[X].euro_per_pct = Inf
        /\ econ.df_pct[Y] = Zero
        /\ econ.df_eff[Y].euro_per_pct = Inf
        /\ Reduces(Z)
        /\ IsFinite(econ.df_eff[Z].euro_per_pct)
        /\ RGt(econ.df_eff[Z].euro_per_pct, Zero)

\* the high-heat pixel counts of the city as process_city gives them
HotCount(G) ==
    Cardinality(HotPixels(
        process_city(files, canopy_increase, roof_increase, park_increase).heatmaps[G]))

\* C20: the area difference step 3C uses is (baseline high-heat pixels -
\* scenario high-heat pixels) * 100 m2 as process_city counts them; a
\* scenario that removes a high-heat pixel has a non-zero difference, cost
\* and carbon.
C20_ExactAreaDifference ==
    (Costed /\ files # None) =>
        \A X \in Columns :
            /\ econ.area_m2[X] = Num((HotCount("Baseline") - HotCount(X)) * 100)
            /\ HotCount(X) < HotCount("Baseline") =>
                   /\ econ.area_m2[X] # Zero
                   /\ econ.df_costs[X] # Zero
                   /\ econ.df_carbon[X] # Zero

\* ------------------------------------------- claims on preprocessing
\* the rasters preprocessing wrote for an uploaded / auto-fetched city
Preprocessed == source \in {"custom", "auto"} /\ files # None
\* no pixel of the grid is nan
Defined(R) == R.nan = {}

\* C18: a min-max normalisation whose input has max = min gives a defined
\* neutral grid: preprocessing writes no nan into the four rasters of the
\* city, and the map layers of step 3B are defined grids.
C18_DegenerateNormalization ==
    /\ Preprocessed => \A n \in RasterNames : Defined(files[n])
    /\ Simulated =>
         \A y \in DOMAIN temporal_results.snapshots :
             LET arr == temporal_results.snapshots[y] IN
             (Defined(arr) /\ \A p, q \in Shape(arr) : arr.v[p] = arr.v[q])
                 => display_norm(arr) = [s |-> 1, nan |-> {}, v |-> [p \in Shape(arr) |-> 0]]

\* ------------------------------------------------------------------ C21
\* what the page shows for city c of df_abs
Shows(field) == page # None /\ field \in DOMAIN page
ZeroBaseline(c) == df_abs[c].Baseline = Zero

\* C21: when a city's Baseline high-heat area is 0, every percent
\* reduction computed for it in step 3A (quick insights), step 3C
\* (reduction table), step 3D (challenge evaluation) and the PDF summary is
\* the defined value 0, never nan or infinite.
C21_ZeroBaselineUniform ==
    df_abs # None =>
        \A c \in DOMAIN df_abs : ZeroBaseline(c) =>
            /\ Shows("insights") => \A X \in Scenarios : page.insights[c][X] = Zero
            /\ Shows("econ") => \A X \in Scenarios : page.econ[c].df_pct[X] = Zero
            /\ Shows("verdict") => page.verdict[c].reduction = Zero
            /\ (Shows("summary") /\ page.summary # None) => page.summary[c] = Zero

\* ------------------------------------------------------------------ C22
\* the steps app.py routes, in the order of the wizard (3.1 .. 3.4 are
\* written 31 .. 34)
StepOrder == <<0, 1, 2, 31, 32, 33, 34, 4, 5>>
Routed == {StepOrder[i] : i \in DOMAIN StepOrder}
Position(s) == CHOOSE i \in DOMAIN StepOrder : StepOrder[i] = s
Succ(s) == StepOrder[Position(s) + 1]
Pred(s) == StepOrder[Position(s) - 1]
Forward == {"Next", "Run Analysis"}
\* a forward button that did not advance: the guard of step 0 or the
\* failed fetch of step 2 left an error on the page
Refused == step = hist.from /\ hist.from \in {0, 2} /\ Shows("error")

\* C22: step is always one of 0, 1, 2, 3.1, 3.2, 3.3, 3.4, 4, 5; a Next or
\* Run Analysis button that advances moves to the immediate successor, a
\* Back button to the immediate predecessor, and Back pressed right after
\* Next returns to the step the user was on.
C22_LinearChain ==
    /\ [](/\ step \in Routed
          /\ hist.button \in Forward => (step = Succ(hist.from) \/ Refused)
          /\ hist.button = "Back" => step = Pred(hist.from))
    /\ [][(/\ hist.button \in Forward /\ step = Succ(hist.from)
            /\ hist'.button = "Back" /\ hist'.from = step)
              => step' = hist.from]_vars
C22_Witness ==
    hist.button = "Back" /\ hist.from = 5 /\ step = 4

\* ------------------------------------------------------------------ C23
\* the last click was Next on step 0
NextOnStep0 == hist.button = "Next" /\ hist.from = 0
AskUpload == [error |-> "Please complete the upload process."]
AskCity == [error |-> "Please select a city, upload a dataset, or auto-fetch one."]

\* C23: Next on step 0 advances to step 1 only with a city selection in
\* the session; otherwise step stays 0 and an error is shown: with the
\* custom box checked because no upload was completed, without it because
\* no predefined city is chosen and no city was auto-fetched.
C23_Step0Guard ==
    NextOnStep0 =>
        \/ /\ step = 1
           /\ session.selected_cities # None
           /\ Len(session.selected_cities) > 0
        \/ /\ step = 0
           /\ page = AskUpload /\ session.custom_city_name = None
        \/ /\ step = 0
           /\ page = AskCity /\ session.auto_city = None
\* refused although a city was auto-fetched: the custom box is checked and
\* no upload was completed
C23_Witness ==
    NextOnStep0 /\ step = 0 /\ page = AskUpload /\ session.auto_city # None

\* ------------------------------------------------------------------ C24
\* the last click was New City Selection
AfterReset == hist.button = "New City Selection"
\* the keys app.py itself sets on every run
AppKeys == {"available_cities"}

\* C24: after New City Selection step is 0 and nothing the earlier run
\* wrote is left in the session: no selection, no custom or auto-fetch
\* keys, no boosts, no cost keys, no df_abs.
C24_NewCityResets ==
    AfterReset =>
        /\ step = 0
        /\ \A k \in SessionKeys \ AppKeys : session[k] = None
        /\ canopy_increase = None /\ roof_increase = None /\ park_increase = None
        /\ costs = None
        /\ df_abs = None
\* the earlier run had preprocessed an uploaded city
C24_Witness ==
    AfterReset /\ step = 0 /\ disk.dirs[PathJoin(BASE_DIR, Custom_AOI)] # None

\* ------------------------------------------------------------------ C25
\* the goal the challenge states, for one evaluated city: the reduction
\* goal against the percent reduction, the CO2 goal against the tons of
\* CO2 per year of the best scenario
GoalMet(challenge, c) ==
    IF "min_co2" \in DOMAIN challenge
    THEN \E X \in Scenarios : FloatGe(co2(df_abs[c], costs, X), Num(challenge.min_co2))
    ELSE FloatGe(page.verdict[c].reduction, Num(challenge.min_reduction))

\* C25: a city is reported as meeting the active challenge only if it
\* satisfies that challenge's own goal and its cost is within max_cost; a
\* city capturing less than 2000 t CO2 a year never meets the CO2 challenge.
C25_VerdictMatchesGoal ==
    (step = 34 /\ Shows("verdict")) =>
        \A c \in DOMAIN page.verdict :
            page.verdict[c].meets =>
                /\ GoalMet(page.challenge, c)
                /\ page.verdict[c].cost <= page.challenge.max_cost

\* ------------------------------------------------------------------ C26
\* every loaded vegetation value lies in [0, 1] (nan pixels aside)
VegetationInUnit ==
    \A p \in Shape(files.ndvi_norm) :
        LET v == Px(temporal_results.ndvi_norm, p)
        IN  IsNaN(v) \/ (RLe(Zero, v) /\ RLe(v, One))
NonNegativeBoosts == \A X \in Scenarios : RLe(Zero, Boosts[X])
AreaOfYear(y) == temporal_results.heat_area[y + 1]

\* C26: with vegetation in [0, 1] and non-negative boosts the high-heat
\* area of year y + 1 is never above that of year y, for y in 0..19, and
\* the areas of years 15 to 20 are all equal.
C26_AreaNonIncreasing ==
    (Simulated /\ VegetationInUnit /\ NonNegativeBoosts) =>
        /\ \A y \in 0..(LastYear - 1) : RLe(AreaOfYear(y + 1), AreaOfYear(y))
        /\ \A y \in TreeYears..LastYear : AreaOfYear(y) = AreaOfYear(TreeYears)
\* the area falls after the first year and stays there
C26_Witness ==
    /\ Simulated /\ VegetationInUnit /\ NonNegativeBoosts
    /\ \E y \in 1..(LastYear - 1) : RLt(AreaOfYear(y + 1), AreaOfYear(y))

\* ------------------------------------------------------------------ C27
\* the page lists the directories process_city read, one per city
ReadCities == step \in {31, 32} /\ Shows("reads")
\* a directory remembered in the session for a custom or auto-fetched city
Remembered == {session.custom_city_dir, session.auto_city_dir} \ {None}

\* C27: whatever the wizard did before in the session, process_city reads
\* the rasters of a city from that city's own directory, never from the
\* directory of another city remembered in custom_city_dir or
\* auto_city_dir.
C27_OwnDirectory ==
    ReadCities =>
        \A i \in DOMAIN page.reads :
            /\ page.reads[i].dir = PathJoin(BASE_DIR, page.reads[i].city)
            /\ \A d \in Remembered :
                  page.reads[i].dir = d => d.name = page.reads[i].city
\* an upload is remembered in the session, the user confirmed another
\* selection, and the analysis read the directory of the uploaded city
C27_Witness ==
    /\ ReadCities
    /\ session.custom_city_dir # None
    /\ hist.confirmed # session.selected_cities
    /\ page.reads[1].dir = session.custom_city_dir

\* ------------------------------------------------------------------ C28
\* C28: when the wizard is on step 3.1, selected_cities is the selection
\* last confirmed with Next on step 0: Run Analysis does not replace a
\* confirmed selection of predefined cities by a custom or auto-fetched
\* city remembered from earlier in the session.
C28_ConfirmedSelectionAnalysed ==
    step = 31 => session.selected_cities = hist.confirmed

\* ------------------------------------------------------------------ C30
\* the features of the stakeholder file, none before the first submission
Saved(dsk) == IF dsk.stakeholder_inputs = None THEN <<>> ELSE dsk.stakeholder_inputs

\* C30: a submission on the feedback step keeps every feature already in
\* the stakeholder file as it was stored, with the name, profession,
\* company and nationality entered with its own submission, and adds its
\* own features after them.
C30_AppendOnly ==
    [][ /\ Len(Saved(disk')) >= Len(Saved(disk))
        /\ \A i \in DOMAIN Saved(disk) : Saved(disk')[i] = Saved(disk)[i] ]_vars

\* ------------------------------------------------------------------ C29
\* the steps that read selected_cities or the boosts, or come after them
FromHeatmaps == {31, 32, 33, 34, 4, 5}
BoostsPresent == canopy_increase # None /\ roof_increase # None /\ park_increase # None
CostsPresent == costs # None /\ (Scenarios \cup {"carbon_factor"}) \subseteq DOMAIN costs

====
